---- MODULE Spec2Model ----
(***************************************************************************)
(* FileManager-BE: the Folder / FileMetadata tables, the storage tree on   *)
(* disk, the item, folder and file services and the directory sync.        *)
(*                                                                         *)
(* A name is a sequence of string tokens; its text is their concatenation  *)
(* (<<"f", "_copy", ".txt">> is f_copy.txt).  A path is a sequence of      *)
(* names below Storage.PATH; its first name is the owner's id.             *)
(***************************************************************************)
EXTENDS Integers, Sequences, FiniteSets, TLC

\* ---------------------------------------------------------------- bounds
MaxFolders == 3        \* Folder ids handed out by the folders.id sequence
MaxFiles == 3          \* FileMetadata ids handed out by the files.id sequence
MaxSyncTasks == 2      \* background sync tasks scheduled in SpecSync
MaxRequests == 3       \* requests served in one behaviour of Spec
MaxDeep == 5           \* requests served in one behaviour of SpecDeep
MaxSyncRequests == 3   \* requests served in one behaviour of SpecSync
MaxNameRequests == 3   \* requests served in one behaviour of SpecNames
MaxCleanRequests == 5  \* requests served in one behaviour of SpecClean
MaxDeleteRequests == 5 \* requests served in one behaviour of SpecDelete
MaxDiskRequests == 4   \* requests served in one behaviour of SpecDisk
MaxEvents == 1         \* out-of-band disk changes in one behaviour
MaxShareRequests == 4  \* requests served in one behaviour of SpecShare
MaxClock == 2          \* hours the clock runs in one behaviour
MaxDiskDepth == 2      \* depth below the user's directory of out-of-band changes

\* ---------------------------------------------------------------- inputs
NULL == 0              \* Python None / SQL NULL for ids
Users == {1, 2}
DeepUsers == {1}       \* the users of SpecDeep
ShareHours == {1}      \* expires_in_hours of a share request
LongHours == {1, 2}    \* expires_in_hours of a share request in SpecShare
FolderNames == {<<"a">>, <<"b">>}
FileNames == {<<"f", ".txt">>}
\* the file names uploaded in SpecNames: f.txt, f_1.txt, f_copy.txt
NameFiles == FileNames \cup {<<"f", "_1", ".txt">>, <<"f", "_copy", ".txt">>}
Exts == {".txt"}
FolderIds == 1..MaxFolders
FileIds == 1..MaxFiles
FILE == "file"
FOLDER == "folder"
ItemType == {FILE, FOLDER}

VARIABLES
    folders,       \* committed rows of table folders
    files,         \* committed rows of table files
    nextFolderId,  \* folders.id sequence
    nextFileId,    \* files.id sequence
    dirs,          \* directories on disk (paths below Storage.PATH)
    dfiles,        \* regular files on disk
    last,          \* the last request and its response
    requests,      \* number of requests served so far
    now,           \* the clock, in hours
    events,        \* number of out-of-band disk changes so far
    issued,        \* the share tokens handed out so far
    sync_lock,     \* threading.Lock of common_utils: TRUE when held
    tasks,         \* background sync tasks: id -> [pc, user, folder_id, ...]
    users,         \* committed rows of table users
    nextUserId,    \* users.id sequence
    granted,       \* the access tokens handed out so far
    bearers,       \* for each of them, the id of the User row it was issued for
    disk_usage,    \* psutil.disk_usage(storage_path): total, used, free in bytes
    size_in_bytes, \* the argument of a call of format_size
    formatted,     \* what that call returned
    uploading      \* the uploads that have written their file but not their row

dbvars == <<folders, files, nextFolderId, nextFileId>>
diskvars == <<dirs, dfiles>>
syncvars == <<sync_lock, tasks>>
uservars == <<users, nextUserId, granted, bearers>>
sysvars == <<disk_usage, size_in_bytes, formatted>>
NoToken == [file_id |-> NULL, exp |-> NULL]
vars == <<folders, files, nextFolderId, nextFileId, dirs, dfiles, last, requests, now,
          events, issued, sync_lock, tasks, users, nextUserId, granted, bearers,
          disk_usage, size_in_bytes, formatted, uploading>>

\* ------------------------------------------------------------ sequences
Last(s) == s[Len(s)]
Front(s) == SubSeq(s, 1, Len(s) - 1)
IsPrefix(p, q) == Len(p) <= Len(q) /\ SubSeq(q, 1, Len(p)) = p

\* the elements of a finite set of integers (ids) in increasing order
RECURSIVE SortedSeq(_)
SortedSeq(S) ==
    IF S = {} THEN <<>>
    ELSE LET m == CHOOSE x \in S : \A y \in S : x <= y
         IN <<m>> \o SortedSeq(S \ {m})

\* ------------------------------------------------------------ os.path
\* str(current_user.id) as a path component
UserDir(u) == <<ToString(u)>>
\* os.path.join(STORAGE_PATH, str(user_id), *parts)
StoragePath(u, parts) == <<UserDir(u)>> \o parts
\* os.path.dirname
Dirname(p) == Front(p)
\* os.path.splitext on a file name: (base_name, extension)
Splitext(n) ==
    IF Len(n) > 1 /\ Last(n) \in Exts
    THEN [base |-> Front(n), ext |-> <<Last(n)>>]
    ELSE [base |-> n, ext |-> <<>>]
\* mimetypes.guess_type(name)[0]; "none" is None
GuessType(name) == IF Last(name) = ".txt" THEN "text/plain" ELSE "none"
\* f"_{counter}"
Counter(k) == "_" \o ToString(k)
\* os.path.exists; Storage.PATH itself is <<>>
Exists(D, F, p) == p = <<>> \/ p \in D \/ p \in F
\* os.makedirs(p, exist_ok=True): p and every missing ancestor
Makedirs(D, p) == D \cup {SubSeq(p, 1, k) : k \in 1..Len(p)}
\* the entries at or below p
Under(S, p) == {q \in S : IsPrefix(p, q)}
\* p with its prefix old replaced by new (os.rename / shutil.move of a tree)
Rebase(q, old, new) == new \o SubSeq(q, Len(old) + 1, Len(q))
\* shutil.rmtree(p)
Rmtree(S, p) == S \ Under(S, p)
\* the tree at old moved to new
MoveTree(S, old, new) == (S \ Under(S, old)) \cup {Rebase(q, old, new) : q \in Under(S, old)}

\* ---------------------------------------------------------------- rows
FolderRow(id, name, parent_id, owner_id) ==
    [id |-> id, name |-> name, parent_id |-> parent_id, owner_id |-> owner_id,
     created_at |-> id]
\* os.path.getsize of a stored file: every body written is this long
ContentSize == 3
FileRow(id, filename, filepath, mimetype, folder_id, owner_id, uploaded_at) ==
    [id |-> id, filename |-> filename, filepath |-> filepath, mimetype |-> mimetype,
     folder_id |-> folder_id, owner_id |-> owner_id, uploaded_at |-> uploaded_at,
     is_public |-> FALSE, share_token |-> NoToken, share_expiry |-> NULL,
     size |-> ContentSize]

\* what .first() gives when no row matches (None); Found tells a row from it
NoRow == [id |-> NULL]
Found(row) == row.id # NULL
\* db.query(Folder).filter(Folder.id == id).first()
FolderById(Fs, id) ==
    IF \E f \in Fs : f.id = id THEN CHOOSE f \in Fs : f.id = id ELSE NoRow
\* db.query(Folder).filter(Folder.id == id, Folder.owner_id == u).first()
OwnedFolder(Fs, id, u) ==
    IF \E f \in Fs : f.id = id /\ f.owner_id = u
    THEN CHOOSE f \in Fs : f.id = id /\ f.owner_id = u ELSE NoRow
\* the lookup of a file by id alone, without the owner filter
FileOfAnyOwner(Xs, id, u) ==
    IF \E x \in Xs : x.id = id THEN CHOOSE x \in Xs : x.id = id ELSE NoRow

\* db.query(FileMetadata).filter(FileMetadata.id == id, FileMetadata.owner_id == u).first()
OwnedFile(Xs, id, u) ==
    IF \E x \in Xs : x.id = id /\ x.owner_id = u
    THEN CHOOSE x \in Xs : x.id = id /\ x.owner_id = u ELSE NoRow

\* the names from a folder up to the root, following parent_id through any
\* owner's rows (filter_by(id=current_folder.parent_id)); fuel bounds the walk
RECURSIVE NameChain(_, _, _)
NameChain(Fs, id, fuel) ==
    LET f == FolderById(Fs, id)
    IN IF ~Found(f) \/ fuel = 0 THEN <<>>
       ELSE NameChain(Fs, f.parent_id, fuel - 1) \o <<f.name>>

\* the ids of the children of id only
ChildrenOnly(Fs, id, fuel) == {f.id : f \in {g \in Fs : g.parent_id = id}}

\* the ids of the folders below id (children found by parent_id, any owner)
RECURSIVE Descendants(_, _, _)
Descendants(Fs, id, fuel) ==
    IF fuel = 0 THEN {}
    ELSE LET kids == {f.id : f \in {g \in Fs : g.parent_id = id}}
         IN kids \cup UNION {Descendants(Fs, k, fuel - 1) : k \in kids}

\* ------------------------------------------------------------ responses
Response(op, user, kind, raised, status, ret) ==
    [op |-> op, user |-> user, kind |-> kind, raised |-> raised, status |-> status,
     ret |-> ret]

\* -------------------------------------------------------- byte counts
\* a float as m * 1024^e: dividing it by 1024.0 is exact and lowers e
Float(m, e) == [m |-> m, e |-> e]
\* psutil's sdiskusage
Usage(total, used, free) == [total |-> total, used |-> used, free |-> free]
\* no call of format_size has returned yet
NoText == <<>>

\* the service before any request
InitService ==
    /\ folders = {}
    /\ files = {}
    /\ nextFolderId = 1
    /\ nextFileId = 1
    /\ dirs = {}
    /\ dfiles = {}
    /\ last = Response("none", NULL, "none", "none", NULL, {})
    /\ requests = 0
    /\ now = 0
    /\ events = 0
    /\ issued = {}
    /\ sync_lock = FALSE
    /\ tasks = <<>>
    /\ users = {}
    /\ nextUserId = 1
    /\ granted = {}
    /\ bearers = {}
    /\ uploading = {}

Init ==
    /\ InitService
    /\ disk_usage = Usage(0, 0, 0)
    /\ size_in_bytes = Float(0, 0)
    /\ formatted = NoText

\* one more request is served
Served(max) == requests < max /\ requests' = requests + 1 /\ UNCHANGED <<now, events>>

\* ------------------------------------------------- folder_management.py
\* POST /folders/create
create_folder(u, name, parent_id) ==
    LET parent_folder == OwnedFolder(folders, parent_id, u)
        existing_folder == \E f \in folders :
            f.name = name /\ f.parent_id = parent_id /\ f.owner_id = u
        folder_path == StoragePath(u, <<name>>)
    IN IF parent_id # NULL /\ ~Found(parent_folder)
       THEN /\ last' = Response("create_folder", u, FOLDER, "404", 500, {})
            /\ UNCHANGED <<dbvars, diskvars>>
       ELSE IF existing_folder
       THEN /\ last' = Response("create_folder", u, FOLDER, "400", 500, {})
            /\ UNCHANGED <<dbvars, diskvars>>
       ELSE /\ nextFolderId <= MaxFolders
            /\ folders' = folders \cup {FolderRow(nextFolderId, name, parent_id, u)}
            /\ nextFolderId' = nextFolderId + 1
            /\ dirs' = Makedirs(dirs, folder_path)
            /\ last' = Response("create_folder", u, FOLDER, "none", 200, {<<FOLDER, nextFolderId>>})
            /\ UNCHANGED <<files, nextFileId, dfiles>>

CreateFolderNamed(U, names, max) ==
    /\ \E u \in U, name \in names, parent_id \in FolderIds \cup {NULL} :
          create_folder(u, name, parent_id)
    /\ Served(max)
    /\ UNCHANGED <<syncvars, issued, uservars, sysvars, uploading>>

CreateFolder(U, max) == CreateFolderNamed(U, FolderNames, max)

\* --------------------------------------------- file_management_service.py
\* a renaming that tries base_1+ext only
UploadNameOnce(Xs, u, folder_id, filename) ==
    LET taken(n) == \E x \in Xs :
            x.folder_id = folder_id /\ x.filename = n /\ x.owner_id = u
        sp == Splitext(filename)
    IN IF taken(filename) THEN sp.base \o <<Counter(1)>> \o sp.ext ELSE filename

\* the name upload_file stores: filename, or base_k+ext for the first free k
UploadName(Xs, u, folder_id, filename) ==
    LET taken(n) == \E x \in Xs :
            x.folder_id = folder_id /\ x.filename = n /\ x.owner_id = u
        sp == Splitext(filename)
        new_filename(k) == sp.base \o <<Counter(k)>> \o sp.ext
        counter == CHOOSE k \in 1..(Cardinality(Xs) + 1) :
            ~taken(new_filename(k)) /\ \A j \in 1..(k - 1) : taken(new_filename(j))
    IN IF taken(filename) THEN new_filename(counter) ELSE filename

\* POST /files/upload
upload_file(u, filename, folder_id) ==
    LET folder == OwnedFolder(folders, folder_id, u)
        folder_path_parts ==
            IF folder_id # NULL THEN NameChain(folders, folder_id, MaxFolders) ELSE <<>>
        folder_path == StoragePath(u, folder_path_parts)
        stored == UploadName(files, u, folder_id, filename)
        file_path == folder_path \o <<stored>>
    IN IF folder_id # NULL /\ ~Found(folder)
       THEN /\ last' = Response("upload_file", u, FILE, "404", 400, {})
            /\ UNCHANGED <<dbvars, diskvars>>
       ELSE /\ nextFileId <= MaxFiles
            /\ dirs' = Makedirs(dirs, folder_path)
            /\ dfiles' = dfiles \cup {file_path}
            /\ files' = files \cup {FileRow(nextFileId, stored, file_path, GuessType(stored), folder_id, u, 0)}
            /\ nextFileId' = nextFileId + 1
            /\ last' = Response("upload_file", u, FILE, "none", 200, {<<FILE, nextFileId>>})
            /\ UNCHANGED <<folders, nextFolderId>>

UploadNamed(U, names, max) ==
    /\ \E u \in U, filename \in names, folder_id \in FolderIds \cup {NULL} :
          upload_file(u, filename, folder_id)
    /\ Served(max)
    /\ UNCHANGED <<syncvars, issued, uservars, sysvars, uploading>>

UploadFile(U, max) == UploadNamed(U, FileNames, max)

\* --------------------------------------------- item_management_service.py
\* a request of the item service that ends in the except branch:
\* db.rollback() and HTTPException(500), whatever was raised
Rejected(op, u, kind, raised) ==
    /\ last' = Response(op, u, kind, raised, 500, {})
    /\ UNCHANGED dbvars

\* DELETE /items/delete
delete_item(u, item_type, item_id) ==
    IF item_type = FILE
    THEN LET file == OwnedFile(files, item_id, u)
         IN IF ~Found(file)
            THEN Rejected("delete_item", u, FILE, "404") /\ UNCHANGED diskvars
            ELSE /\ dfiles' = dfiles \ {file.filepath}
                 /\ files' = files \ {file}
                 /\ last' = Response("delete_item", u, FILE, "none", 200, {})
                 /\ UNCHANGED <<folders, nextFolderId, nextFileId, dirs>>
    ELSE LET folder == OwnedFolder(folders, item_id, u)
             folder_path == StoragePath(u, <<folder.name>>)
             \* delete_folder_contents: the folder and all below it
             gone == {item_id} \cup Descendants(folders, item_id, MaxFolders)
         IN IF ~Found(folder)
            THEN Rejected("delete_item", u, FOLDER, "404") /\ UNCHANGED diskvars
            ELSE /\ dirs' = Rmtree(dirs, folder_path)
                 /\ dfiles' = Rmtree(dfiles, folder_path)
                 /\ files' = {x \in files : x.folder_id \notin gone}
                 /\ folders' = {f \in folders : f.id \notin gone}
                 /\ last' = Response("delete_item", u, FOLDER, "none", 200, {})
                 /\ UNCHANGED <<nextFolderId, nextFileId>>

DeleteItem(U, max) ==
    /\ \E u \in U, item_type \in ItemType, item_id \in FolderIds \cup FileIds :
          delete_item(u, item_type, item_id)
    /\ Served(max)
    /\ UNCHANGED <<syncvars, issued, uservars, sysvars, uploading>>

\* the ids current_parent takes in move_item's walk from the destination up
RECURSIVE ParentWalk(_, _, _)
ParentWalk(Fs, id, fuel) ==
    LET f == FolderById(Fs, id)
    IN IF ~Found(f) \/ fuel = 0 THEN {}
       ELSE {f.id} \cup ParentWalk(Fs, f.parent_id, fuel - 1)

\* a check that looks at the destination only, not at its ancestors
IntoItselfDirect(Fs, item_id, destination_folder_id) ==
    destination_folder_id # NULL /\ destination_folder_id = item_id

\* no check at all
IntoItselfNever(Fs, item_id, destination_folder_id) == FALSE

\* "Prevent moving folder into itself or its subdirectories"
IntoItself(Fs, item_id, destination_folder_id) ==
    /\ destination_folder_id # NULL
    /\ item_id \in ParentWalk(Fs, destination_folder_id, MaxFolders)

\* PUT /items/move
move_item(u, item_type, item_id, destination_folder_id) ==
    LET dest_folder == OwnedFolder(folders, destination_folder_id, u)
    IN IF destination_folder_id # NULL /\ ~Found(dest_folder)
       THEN Rejected("move_item", u, item_type, "404") /\ UNCHANGED diskvars
       ELSE IF item_type = FILE
       THEN LET file == OwnedFile(files, item_id, u)
                new_file_path ==
                    IF destination_folder_id # NULL
                    THEN StoragePath(u, <<dest_folder.name, file.filename>>)
                    ELSE StoragePath(u, <<file.filename>>)
            IN IF ~Found(file)
               THEN Rejected("move_item", u, FILE, "404") /\ UNCHANGED diskvars
               ELSE /\ dirs' = Makedirs(dirs, Dirname(new_file_path))
                    /\ IF file.filepath \notin dfiles
                       THEN \* shutil.move: FileNotFoundError
                            Rejected("move_item", u, FILE, "error") /\ UNCHANGED dfiles
                       ELSE /\ dfiles' = (dfiles \ {file.filepath}) \cup {new_file_path}
                            /\ files' = (files \ {file}) \cup
                                   {[file EXCEPT !.filepath = new_file_path,
                                                 !.folder_id = destination_folder_id]}
                            /\ last' = Response("move_item", u, FILE, "none", 200, {})
                            /\ UNCHANGED <<folders, nextFolderId, nextFileId>>
       ELSE LET folder == OwnedFolder(folders, item_id, u)
                old_path == StoragePath(u, <<folder.name>>)
                new_path ==
                    IF destination_folder_id # NULL
                    THEN StoragePath(u, <<dest_folder.name, folder.name>>)
                    ELSE StoragePath(u, <<folder.name>>)
                made == Makedirs(dirs, Dirname(new_path))
                \* shutil.move: into new_path when that is a directory
                real_dst == IF new_path \in made /\ new_path # old_path
                            THEN new_path \o <<Last(old_path)>> ELSE new_path
                moved == <<folder, destination_folder_id>>
            IN IF ~Found(folder)
               THEN Rejected("move_item", u, FOLDER, "404") /\ UNCHANGED diskvars
               ELSE IF IntoItself(folders, item_id, destination_folder_id)
               THEN Rejected("move_item", u, FOLDER, "400") /\ UNCHANGED diskvars
               ELSE IF old_path \in dirs /\ real_dst # old_path
                       /\ (Exists(made, dfiles, real_dst) \/ IsPrefix(old_path, real_dst))
               THEN \* shutil.Error: destination exists, or lies inside the source
                    /\ Rejected("move_item", u, FOLDER, "error")
                    /\ dirs' = made
                    /\ UNCHANGED dfiles
               ELSE /\ IF old_path \in dirs
                       THEN /\ dirs' = MoveTree(made, old_path, real_dst)
                            /\ dfiles' = MoveTree(dfiles, old_path, real_dst)
                       ELSE UNCHANGED diskvars
                    /\ folders' = (folders \ {folder}) \cup
                           {[folder EXCEPT !.parent_id = destination_folder_id]}
                    /\ last' = Response("move_item", u, FOLDER, "none", 200, {})
                    /\ UNCHANGED <<files, nextFolderId, nextFileId>>

MoveItem(U, max) ==
    /\ \E u \in U, item_type \in ItemType, item_id \in FolderIds \cup FileIds,
          destination_folder_id \in FolderIds \cup {NULL} :
          move_item(u, item_type, item_id, destination_folder_id)
    /\ Served(max)
    /\ UNCHANGED <<syncvars, issued, uservars, sysvars, uploading>>

\* db.query(FileMetadata).filter(FileMetadata.id == id).first()
FileById(Xs, id) ==
    IF \E x \in Xs : x.id = id THEN CHOOSE x \in Xs : x.id = id ELSE NoRow

\* the name copy_item gives a copy whose name is taken in the destination:
\* stem_copy+ext, then stem_copy_1+ext, stem_copy_2+ext, ... (ext is <<>> for
\* a folder); taken is the names of the rows in the destination
CopyName(taken, base, ext) ==
    LET new_name(k) == IF k = 0 THEN base \o <<"_copy">> \o ext
                       ELSE base \o <<"_copy", Counter(k)>> \o ext
        counter == CHOOSE k \in 0..Cardinality(taken) :
            new_name(k) \notin taken /\ \A j \in 0..(k - 1) : new_name(j) \in taken
    IN new_name(counter)

\* new_filename of copy_item for a file (the lookup is not owner-scoped)
CopyFileName(Xs, destination_folder_id, filename) ==
    LET taken == {x.filename : x \in {y \in Xs : y.folder_id = destination_folder_id}}
        sp == Splitext(filename)
    IN IF filename \in taken THEN CopyName(taken, sp.base, sp.ext) ELSE filename

\* new_name of copy_folder_recursive (the lookup is not owner-scoped)
CopyFolderName(Fs, dest_parent_id, name) ==
    LET taken == {g.name : g \in {h \in Fs : h.parent_id = dest_parent_id}}
    IN IF name \in taken THEN CopyName(taken, name, <<>>) ELSE name

\* the session and the disk while copy_folder_recursive runs; over: the copy
\* needs more ids than MaxFolders / MaxFiles; raised: an exception is on its
\* way to the except of the current level; swallowed: an except has caught one
CopyState(Fs, Xs, D, F, nfo, nfi) ==
    [folders |-> Fs, files |-> Xs, dirs |-> D, dfiles |-> F, nfo |-> nfo, nfi |-> nfi,
     over |-> FALSE, raised |-> FALSE, swallowed |-> FALSE]

\* "for file in files": shutil.copy2, then the new FileMetadata row
RECURSIVE CopyFiles(_, _, _, _, _)
CopyFiles(st, ids, new_folder_path, new_folder_id, u) ==
    IF ids = <<>> \/ st.over \/ st.raised THEN st
    ELSE LET file == FileById(st.files, Head(ids))
             new_file_path == new_folder_path \o <<file.filename>>
         IN IF file.filepath \notin st.dfiles \/ file.filepath = new_file_path
            THEN \* FileNotFoundError / SameFileError
                 [st EXCEPT !.raised = TRUE]
            ELSE IF st.nfi > MaxFiles THEN [st EXCEPT !.over = TRUE]
            ELSE CopyFiles(
                    [st EXCEPT !.dfiles = @ \cup {new_file_path},
                               !.files = @ \cup {FileRow(st.nfi, file.filename, new_file_path,
                                                         file.mimetype, new_folder_id, u,
                                                         st.nfi)},
                               !.nfi = @ + 1],
                    Tail(ids), new_folder_path, new_folder_id, u)

RECURSIVE copy_folder_recursive(_, _, _, _)
RECURSIVE CopySubfolders(_, _, _, _)
copy_folder_recursive(st, u, src_id, dest_parent_id) ==
    IF st.over THEN st
    ELSE IF st.nfo > MaxFolders THEN [st EXCEPT !.over = TRUE]
    ELSE LET src_folder == FolderById(st.folders, src_id)
             new_name == CopyFolderName(st.folders, dest_parent_id, src_folder.name)
             new_id == st.nfo
             dest_folder == FolderById(st.folders, dest_parent_id)
             new_folder_path ==
                 IF dest_parent_id # NULL
                 THEN StoragePath(u, <<dest_folder.name, new_name>>)
                 ELSE StoragePath(u, <<new_name>>)
             st1 == [st EXCEPT
                        !.folders = @ \cup {FolderRow(new_id, new_name, dest_parent_id, u)},
                        !.nfo = @ + 1,
                        !.dirs = Makedirs(@, new_folder_path)]
             fids == SortedSeq({x.id : x \in {y \in st1.files : y.folder_id = src_id}})
             st2 == CopyFiles(st1, fids, new_folder_path, new_id, u)
             subfolders == SortedSeq({g.id : g \in {h \in st2.folders : h.parent_id = src_id}})
         IN IF st2.raised
            THEN \* except Exception: logged, the caller goes on
                 [st2 EXCEPT !.raised = FALSE, !.swallowed = TRUE]
            ELSE CopySubfolders(st2, u, subfolders, new_id)
CopySubfolders(st, u, ids, new_parent_id) ==
    IF ids = <<>> \/ st.over THEN st
    ELSE CopySubfolders(copy_folder_recursive(st, u, Head(ids), new_parent_id),
                        u, Tail(ids), new_parent_id)

\* PUT /items/copy
copy_item(u, item_type, item_id, destination_folder_id) ==
    LET dest_folder == OwnedFolder(folders, destination_folder_id, u)
    IN IF destination_folder_id # NULL /\ ~Found(dest_folder)
       THEN Rejected("copy_item", u, item_type, "404") /\ UNCHANGED diskvars
       ELSE IF item_type = FILE
       THEN LET file == OwnedFile(files, item_id, u)
                new_filename == CopyFileName(files, destination_folder_id, file.filename)
                new_file_path ==
                    IF destination_folder_id # NULL
                    THEN StoragePath(u, <<dest_folder.name, new_filename>>)
                    ELSE StoragePath(u, <<new_filename>>)
            IN IF ~Found(file)
               THEN Rejected("copy_item", u, FILE, "404") /\ UNCHANGED diskvars
               ELSE /\ dirs' = Makedirs(dirs, Dirname(new_file_path))
                    /\ IF file.filepath \notin dfiles \/ file.filepath = new_file_path
                       THEN \* shutil.copy2: FileNotFoundError / SameFileError
                            Rejected("copy_item", u, FILE, "error") /\ UNCHANGED dfiles
                       ELSE /\ nextFileId <= MaxFiles
                            /\ dfiles' = dfiles \cup {new_file_path}
                            /\ files' = files \cup
                                   {FileRow(nextFileId, new_filename, new_file_path, file.mimetype,
                                            destination_folder_id, u, nextFileId)}
                            /\ nextFileId' = nextFileId + 1
                            /\ last' = Response("copy_item", u, FILE, "none", 200, {})
                            /\ UNCHANGED <<folders, nextFolderId>>
       ELSE LET source_folder == OwnedFolder(folders, item_id, u)
                st == copy_folder_recursive(
                          CopyState(folders, files, dirs, dfiles, nextFolderId, nextFileId),
                          u, item_id, destination_folder_id)
            IN IF ~Found(source_folder)
               THEN Rejected("copy_item", u, FOLDER, "404") /\ UNCHANGED diskvars
               ELSE /\ ~st.over
                    /\ folders' = st.folders
                    /\ files' = st.files
                    /\ nextFolderId' = st.nfo
                    /\ nextFileId' = st.nfi
                    /\ dirs' = st.dirs
                    /\ dfiles' = st.dfiles
                    /\ last' = Response("copy_item", u, FOLDER,
                                        IF st.swallowed THEN "swallowed" ELSE "none", 200, {})

CopyItem(U, max) ==
    /\ \E u \in U, item_type \in ItemType, item_id \in FolderIds \cup FileIds,
          destination_folder_id \in FolderIds \cup {NULL} :
          copy_item(u, item_type, item_id, destination_folder_id)
    /\ Served(max)
    /\ UNCHANGED <<syncvars, issued, uservars, sysvars, uploading>>

\* str.replace(old_path_part, new_path_part) on a stored path, where the old
\* part is <storage>/<user>/<old name>: it matches where the path's second
\* component starts with the old name's text
StrReplace(path, old_path, new_path) ==
    IF /\ Len(path) >= 2
       /\ path[1] = old_path[1]
       /\ IsPrefix(old_path[2], path[2])
    THEN <<path[1], Rebase(path[2], old_path[2], new_path[2])>> \o SubSeq(path, 3, Len(path))
    ELSE path

\* PUT /items/rename
rename_item(u, item_type, item_id, new_name) ==
    IF item_type = FILE
    THEN LET file == OwnedFile(files, item_id, u)
             conflict == \E x \in files :
                 x.folder_id = file.folder_id /\ x.filename = new_name /\ x.id # file.id
             new_filepath == Dirname(file.filepath) \o <<new_name>>
         IN IF ~Found(file)
            THEN Rejected("rename_item", u, FILE, "404") /\ UNCHANGED diskvars
            ELSE IF conflict
            THEN Rejected("rename_item", u, FILE, "400") /\ UNCHANGED diskvars
            ELSE IF file.filepath \notin dfiles
            THEN \* os.rename: FileNotFoundError
                 Rejected("rename_item", u, FILE, "error") /\ UNCHANGED diskvars
            ELSE /\ dfiles' = (dfiles \ {file.filepath}) \cup {new_filepath}
                 /\ files' = (files \ {file}) \cup
                        {[file EXCEPT !.filename = new_name, !.filepath = new_filepath]}
                 /\ last' = Response("rename_item", u, FILE, "none", 200, {})
                 /\ UNCHANGED <<folders, nextFolderId, nextFileId, dirs>>
    ELSE LET folder == OwnedFolder(folders, item_id, u)
             conflict == \E g \in folders :
                 g.parent_id = folder.parent_id /\ g.name = new_name /\ g.id # folder.id
             old_path == StoragePath(u, <<folder.name>>)
             new_path == StoragePath(u, <<new_name>>)
             \* update_file_paths: the files of the folder and of all below it
             inside == {item_id} \cup Descendants(folders, item_id, MaxFolders)
             nonempty == \E q \in dirs \cup dfiles : IsPrefix(new_path, q) /\ q # new_path
         IN IF ~Found(folder)
            THEN Rejected("rename_item", u, FOLDER, "404") /\ UNCHANGED diskvars
            ELSE IF conflict
            THEN Rejected("rename_item", u, FOLDER, "400") /\ UNCHANGED diskvars
            ELSE IF old_path \in dirs /\ new_path # old_path /\ nonempty
            THEN \* os.rename onto a directory that is not empty: OSError
                 Rejected("rename_item", u, FOLDER, "error") /\ UNCHANGED diskvars
            ELSE /\ IF old_path \in dirs
                    THEN /\ dirs' = MoveTree(dirs, old_path, new_path)
                         /\ dfiles' = MoveTree(dfiles, old_path, new_path)
                    ELSE UNCHANGED diskvars
                 /\ folders' = (folders \ {folder}) \cup {[folder EXCEPT !.name = new_name]}
                 /\ files' = {IF x.folder_id \in inside
                              THEN [x EXCEPT !.filepath = StrReplace(@, old_path, new_path)]
                              ELSE x : x \in files}
                 /\ last' = Response("rename_item", u, FOLDER, "none", 200, {})
                 /\ UNCHANGED <<nextFolderId, nextFileId>>

RenameItem(U, max) ==
    /\ \E u \in U, item_type \in ItemType, item_id \in FolderIds \cup FileIds :
          \E new_name \in (IF item_type = FILE THEN FileNames ELSE FolderNames) :
              rename_item(u, item_type, item_id, new_name)
    /\ Served(max)
    /\ UNCHANGED <<syncvars, issued, uservars, sysvars, uploading>>

\* ------------------------------------------------------ common_utils.py
\* what get_folder_path gives for a folder that is not the user's (None)
NoPath == <<>>

\* the names from a folder up to the root through the user's own rows
RECURSIVE OwnedChain(_, _, _, _)
OwnedChain(Fs, id, u, fuel) ==
    LET f == OwnedFolder(Fs, id, u)
    IN IF ~Found(f) \/ fuel = 0 THEN <<>>
       ELSE OwnedChain(Fs, f.parent_id, u, fuel - 1) \o <<f.name>>

\* get_folder_path(db, folder_id, user_id)
get_folder_path(Fs, folder_id, u) ==
    IF ~Found(OwnedFolder(Fs, folder_id, u)) THEN NoPath
    ELSE StoragePath(u, OwnedChain(Fs, folder_id, u, Cardinality(Fs)))

\* str.startswith on the texts of two paths: p starts with b
StrStartsWith(p, b) ==
    /\ b # <<>>
    /\ Len(p) >= Len(b)
    /\ SubSeq(p, 1, Len(b) - 1) = Front(b)
    /\ IsPrefix(Last(b), p[Len(b)])

\* ---------------------------------------- folder_management_handler.py
\* the rows clean_folder_recursive marks for deletion in folder_id and below:
\* of the user's files there that share filename and MIME type all but the
\* first by uploaded_at, of the user's folders there that share a name all but
\* the first by created_at (rows with equal stamps in id order)
RECURSIVE clean_folder_recursive(_, _, _, _, _)
clean_folder_recursive(Fs, Xs, u, folder_id, fuel) ==
    LET here == {x \in Xs : x.folder_id = folder_id /\ x.owner_id = u}
        Before(x, y) == x.uploaded_at < y.uploaded_at
                        \/ (x.uploaded_at = y.uploaded_at /\ x.id < y.id)
        files_to_delete == {x \in here : \E y \in here :
            y.filename = x.filename /\ y.mimetype = x.mimetype
            /\ Before(y, x)}
        subfolders == {g \in Fs : g.parent_id = folder_id /\ g.owner_id = u}
        folders_to_delete == {g \in subfolders : \E h \in subfolders :
            h.name = g.name /\ h.created_at < g.created_at}
        below == IF fuel = 0 THEN {}
                 ELSE {clean_folder_recursive(Fs, Xs, u, g.id, fuel - 1) : g \in subfolders}
    IN [files |-> files_to_delete \cup UNION {b.files : b \in below},
        folders |-> folders_to_delete \cup UNION {b.folders : b \in below}]

\* the flush without the ORM's handling of the relationships: the rows
\* marked are deleted and no other row is touched
FlushKeepsKeys(Fs, Xs, deleted) ==
    [folders |-> Fs \ deleted, files |-> Xs]

\* the session's flush of deleted Folder rows: the rows that still point at
\* them through the files / subfolders relationships get a NULL key
Flush(Fs, Xs, deleted) ==
    LET ids == {g.id : g \in deleted}
    IN [folders |-> {IF g.parent_id \in ids THEN [g EXCEPT !.parent_id = NULL] ELSE g :
                        g \in Fs \ deleted},
        files |-> {IF x.folder_id \in ids THEN [x EXCEPT !.folder_id = NULL] ELSE x :
                        x \in Xs}]

\* clean_directory(current_user_id, db, current_folder_id): the tables after it
CleanDirectoryRows(Fs, Xs, u, current_folder_id) ==
    LET marked == clean_folder_recursive(Fs, Xs, u, current_folder_id, Cardinality(Fs))
    IN Flush(Fs, Xs \ marked.files, marked.folders)

\* ------------------------------------------------------ common_utils.py
\* the Folder rows of the disk walk: one for each directory in todo, parents
\* first; map is scope_folders as pairs <<path, folder id>>
RECURSIVE WalkDirs(_, _, _, _, _, _)
WalkDirs(todo, map, rows, nfo, u, folder_id) ==
    IF todo = {} THEN [map |-> map, rows |-> rows, nfo |-> nfo]
    ELSE LET dir_path == CHOOSE q \in todo : \A r \in todo : Len(q) <= Len(r)
             parent_path == Dirname(dir_path)
             parent_id == IF \E pr \in map : pr[1] = parent_path
                          THEN (CHOOSE pr \in map : pr[1] = parent_path)[2]
                          ELSE folder_id
         IN WalkDirs(todo \ {dir_path}, map \cup {<<dir_path, nfo>>},
                     rows \cup {FolderRow(nfo, Last(dir_path), parent_id, u)},
                     nfo + 1, u, folder_id)

\* the FileMetadata rows of the disk walk: one for each file in todo
RECURSIVE WalkFiles(_, _, _, _, _, _)
WalkFiles(todo, map, rows, nfi, u, folder_id) ==
    IF todo = {} THEN [rows |-> rows, nfi |-> nfi]
    ELSE LET file_path == CHOOSE q \in todo : TRUE
             parent_path == Dirname(file_path)
             parent_id == IF \E pr \in map : pr[1] = parent_path
                          THEN (CHOOSE pr \in map : pr[1] = parent_path)[2]
                          ELSE folder_id
             mime_type == IF GuessType(Last(file_path)) = "none"
                          THEN "application/octet-stream"
                          ELSE GuessType(Last(file_path))
         IN WalkFiles(todo \ {file_path}, map,
                      rows \cup {FileRow(nfi, Last(file_path), file_path, mime_type,
                                         parent_id, u, nfi)},
                      nfi + 1, u, folder_id)

\* sync_directory_with_db between the acquisition of sync_lock and its
\* release: the tables, the disk and the id sequences after it. outcome is
\* "invalid" for the ValueError (nothing changes), "ok" otherwise; committed
\* is the tables at db.commit(), before clean_directory; over tells that the
\* walk needs more ids than MaxFolders / MaxFiles
SyncBody(Fs, Xs, D, F, nfo, nfi, u, folder_id) ==
    LET base_path == IF folder_id # NULL THEN get_folder_path(Fs, folder_id, u)
                     ELSE StoragePath(u, <<>>)
        unchanged == [outcome |-> "invalid", over |-> FALSE, folders |-> Fs, files |-> Xs,
                      committed |-> [folders |-> Fs, files |-> Xs],
                      dirs |-> D, nfo |-> nfo, nfi |-> nfi]
    IN IF folder_id # NULL /\ (base_path = NoPath \/ ~Exists(D, F, base_path))
       THEN unchanged
       ELSE
       LET D1 == Makedirs(D, base_path)
           all_folders == {f \in Fs : f.owner_id = u}
           all_files == {x \in Xs : x.owner_id = u}
           folder_paths == [id \in {f.id : f \in all_folders} |->
               StoragePath(u, OwnedChain(Fs, id, u, Cardinality(Fs)))]
           \* a dict keeps the last row of those with one key
           in_scope == {f \in all_folders : IsPrefix(base_path, folder_paths[f.id])}
           scope_folders == {f \in in_scope : \A g \in in_scope :
               folder_paths[g.id] = folder_paths[f.id] => g.id <= f.id}
           files_in == {x \in all_files :
               \/ /\ x.folder_id # NULL
                  /\ x.folder_id \in DOMAIN folder_paths
                  /\ StrStartsWith(folder_paths[x.folder_id], base_path)
               \/ /\ x.folder_id = NULL
                  /\ base_path = StoragePath(u, <<>>)}
           Key == [x \in files_in |->
               IF x.folder_id # NULL
               THEN folder_paths[x.folder_id] \o <<x.filename>>
               ELSE StoragePath(u, <<x.filename>>)]
           scope_files == {x \in files_in : \A y \in files_in :
               Key[y] = Key[x] => y.id <= x.id}
           folder_keys == {folder_paths[f.id] : f \in scope_folders}
           file_keys == {Key[x] : x \in scope_files}
           new_dirs == {q \in D1 : IsPrefix(base_path, q) /\ q # base_path
                                   /\ q \notin folder_keys}
           new_files == {q \in F : IsPrefix(base_path, q) /\ q \notin file_keys}
           wd == WalkDirs(new_dirs, {<<folder_paths[f.id], f.id>> : f \in scope_folders},
                          {}, nfo, u, folder_id)
           wf == WalkFiles(new_files, wd.map, {}, nfi, u, folder_id)
           \* "Cleanup orphaned entries"
           orphan_files == {x \in scope_files : ~Exists(D1, F, Key[x])}
           orphan_folders == {f \in scope_folders : ~Exists(D1, F, folder_paths[f.id])}
           committed == Flush(Fs \cup wd.rows, (Xs \cup wf.rows) \ orphan_files,
                              orphan_folders)
           cleaned == CleanDirectoryRows(committed.folders, committed.files, u, folder_id)
       IN [outcome |-> "ok",
           over |-> wd.nfo > MaxFolders + 1 \/ wf.nfi > MaxFiles + 1,
           folders |-> cleaned.folders, files |-> cleaned.files,
           committed |-> committed,
           dirs |-> D1, nfo |-> wd.nfo, nfi |-> wf.nfi]

\* ------------------------------------------------- folder_management.py
\* the immediate children as the scheduled sync leaves them
ListingAfterSync(u, folder_id) ==
    LET sy == SyncBody(folders, files, dirs, dfiles, nextFolderId, nextFileId, u, folder_id)
    IN {<<FOLDER, f.id>> : f \in {g \in sy.folders : g.owner_id = u /\ g.parent_id = folder_id}}
       \cup {<<FILE, x.id>> : x \in {y \in sy.files : y.owner_id = u /\ y.folder_id = folder_id}}

\* the rows of list_directory's two queries: the immediate children
Listing(u, folder_id) ==
    {<<FOLDER, f.id>> : f \in {g \in folders : g.owner_id = u /\ g.parent_id = folder_id}}
    \cup {<<FILE, x.id>> : x \in {y \in files : y.owner_id = u /\ y.folder_id = folder_id}}

\* sum(f.size for f in files)
RECURSIVE SumSizes(_)
SumSizes(Xs) ==
    IF Xs = {} THEN 0
    ELSE LET x == CHOOSE y \in Xs : TRUE IN x.size + SumSizes(Xs \ {x})

\* the DirectoryListing returned: the rows and the three summary fields
DirectoryListing(u, folder_id) ==
    LET folder == OwnedFolder(folders, folder_id, u)
        listed == {x \in files : x.owner_id = u /\ x.folder_id = folder_id}
    IN Listing(u, folder_id)
       \cup {<<"parent_folder_id", IF folder_id # NULL THEN folder.parent_id ELSE NULL>>,
             <<"total_files", Cardinality(listed)>>,
             <<"total_size", SumSizes(listed)>>}

\* POST /folders/list_directory when the server is otherwise idle: the
\* listing, then the sync it scheduled, which finds sync_lock free and runs
\* to its end before the next request
list_directory(u, folder_id) ==
    LET folder == OwnedFolder(folders, folder_id, u)
        sy == SyncBody(folders, files, dirs, dfiles, nextFolderId, nextFileId, u, folder_id)
    IN IF folder_id # NULL /\ ~Found(folder)
       THEN \* except Exception: logged, None is returned, which is no
            \* DirectoryListing (response_model): the caller gets a 500
            /\ last' = Response("list_directory", u, FOLDER, "404", 500, {})
            /\ UNCHANGED <<dbvars, diskvars>>
       ELSE /\ ~sy.over
            /\ last' = Response("list_directory", u, FOLDER, "none", 200,
                                DirectoryListing(u, folder_id))
            /\ folders' = sy.folders
            /\ files' = sy.files
            /\ nextFolderId' = sy.nfo
            /\ nextFileId' = sy.nfi
            /\ dirs' = sy.dirs
            /\ UNCHANGED dfiles

ListDirectory(U, max) ==
    /\ \E u \in U, folder_id \in FolderIds \cup {NULL} : list_directory(u, folder_id)
    /\ Served(max)
    /\ UNCHANGED <<syncvars, issued, uservars, sysvars, uploading>>

\* POST /folders/clean_directory
clean_directory(u, folder_id) ==
    LET cleaned == CleanDirectoryRows(folders, files, u, folder_id)
    IN /\ folders' = cleaned.folders
       /\ files' = cleaned.files
       /\ last' = Response("clean_directory", u, FOLDER, "none", 200, {})
       /\ UNCHANGED <<nextFolderId, nextFileId, diskvars>>

CleanDirectory(U, max) ==
    /\ \E u \in U, folder_id \in FolderIds \cup {NULL} : clean_directory(u, folder_id)
    /\ Served(max)
    /\ UNCHANGED <<syncvars, issued, uservars, sysvars, uploading>>

\* --------------------------------------------- file_management_service.py
\* create_jwt_token({"file_id": file_id}, timedelta(hours=h)): the claims signed
create_jwt_token(file_id, expires_delta) == [file_id |-> file_id, exp |-> now + expires_delta]

\* POST /files/{file_id}/share
share_file(u, file_id, expires_in_hours) ==
    LET file == OwnedFile(files, file_id, u)
        expiry == now + expires_in_hours
        share_token == create_jwt_token(file_id, expires_in_hours)
    IN IF ~Found(file)
       THEN \* except Exception: logged, None is returned
            /\ last' = Response("share_file", u, FILE, "404", 200, {})
            /\ UNCHANGED <<dbvars, diskvars, issued>>
       ELSE /\ files' = (files \ {file}) \cup
                   {[file EXCEPT !.share_token = share_token, !.share_expiry = expiry,
                                 !.is_public = TRUE]}
            /\ issued' = issued \cup {share_token}
            /\ last' = Response("share_file", u, FILE, "none", 200, {<<FILE, file_id>>})
            /\ UNCHANGED <<folders, nextFolderId, nextFileId, diskvars>>

ShareFor(U, hours, max) ==
    /\ \E u \in U, file_id \in FileIds, expires_in_hours \in hours :
          share_file(u, file_id, expires_in_hours)
    /\ Served(max)
    /\ UNCHANGED <<syncvars, uservars, sysvars, uploading>>

ShareFile(U, max) == ShareFor(U, ShareHours, max)

\* a retrieval that looks at the token and the public flag only
get_shared_file_unexpired(share_token) ==
    LET file_id == share_token.file_id
        found == {x \in files : x.id = file_id /\ x.is_public}
    IN /\ IF share_token = NoToken
          THEN last' = Response("get_shared_file", NULL, FILE, "400", 400, {})
          ELSE IF share_token.exp <= now
          THEN last' = Response("get_shared_file", NULL, FILE, "error", 500, {})
          ELSE IF found = {}
          THEN last' = Response("get_shared_file", NULL, FILE, "404", 404, {})
          ELSE last' = Response("get_shared_file", NULL, FILE, "none", 200,
                                {<<FILE, file_id>>})
       /\ UNCHANGED <<dbvars, diskvars>>

\* GET /user/shared/{share_token}. NoToken stands for a text that is no
\* token (jwt.DecodeError, 400); jwt.decode raises ExpiredSignatureError for
\* a token whose exp has passed, which is no DecodeError and is not caught
get_shared_file(share_token) ==
    LET file_id == share_token.file_id
        found == {x \in files : /\ x.id = file_id
                                /\ x.is_public
                                /\ x.share_expiry > now}
    IN /\ IF share_token = NoToken
          THEN last' = Response("get_shared_file", NULL, FILE, "400", 400, {})
          ELSE IF share_token.exp <= now
          THEN last' = Response("get_shared_file", NULL, FILE, "error", 500, {})
          ELSE IF found = {}
          THEN last' = Response("get_shared_file", NULL, FILE, "404", 404, {})
          ELSE last' = Response("get_shared_file", NULL, FILE, "none", 200,
                                {<<FILE, file_id>>})
       /\ UNCHANGED <<dbvars, diskvars>>

GetSharedFile(max) ==
    /\ \E share_token \in issued \cup {NoToken} : get_shared_file(share_token)
    /\ Served(max)
    /\ UNCHANGED <<syncvars, issued, uservars, sysvars, uploading>>

\* an hour passes
Tick ==
    /\ now < MaxClock
    /\ now' = now + 1
    /\ UNCHANGED <<dbvars, diskvars, last, requests, events, issued, syncvars, uservars, sysvars, uploading>>

\* GET /files/preview/{file_id}
preview_file(u, file_id) ==
    LET file_metadata == OwnedFile(files, file_id, u)
    IN /\ IF ~Found(file_metadata)
          THEN last' = Response("preview_file", u, FILE, "404", 500, {})
          ELSE IF ~Exists(dirs, dfiles, file_metadata.filepath)
          THEN last' = Response("preview_file", u, FILE, "404", 500, {})
          ELSE last' = Response("preview_file", u, FILE, "none", 200, {<<FILE, file_id>>})
       /\ UNCHANGED <<dbvars, diskvars>>

PreviewFile(U, max) ==
    /\ \E u \in U, file_id \in FileIds : preview_file(u, file_id)
    /\ Served(max)
    /\ UNCHANGED <<syncvars, issued, uservars, sysvars, uploading>>

\* ------------------------------------------------------ common_utils.py
\* sync_directory_with_db as a background task that runs in the thread pool
\* beside the requests. pc: "scheduled" (added by list_directory), "skipped"
\* (returned at line 56), "body" (inside try), "finally", "returned"; holds:
\* this invocation has acquired sync_lock and not released it; exit: how the
\* body ended; db: the session the invocation works on
SyncTask(u, folder_id, db) ==
    [pc |-> "scheduled", user |-> u, folder_id |-> folder_id, holds |-> FALSE,
     exit |-> "none", db |-> db]
\* Depends(postgres_util.get_db) of the n-th request: SessionLocal() makes a
\* session for that request, numbered n here
get_db(n) == n
SyncExits == {"ok", "invalid", "walk", "commit", "cleanup"}
InBody(t) == tasks[t].pc \in {"body", "finally"}

\* POST /folders/list_directory: background_tasks.add_task(...) and the listing
schedule_sync(u, folder_id) ==
    LET folder == OwnedFolder(folders, folder_id, u)
    IN IF folder_id # NULL /\ ~Found(folder)
       THEN \* raised before add_task: nothing is scheduled
            /\ last' = Response("list_directory", u, FOLDER, "404", 500, {})
            /\ UNCHANGED tasks
       ELSE /\ Len(tasks) < MaxSyncTasks
            /\ tasks' = Append(tasks, SyncTask(u, folder_id, get_db(requests + 1)))
            /\ last' = Response("list_directory", u, FOLDER, "none", 200,
                                DirectoryListing(u, folder_id))

ScheduleSync(U, max) ==
    /\ \E u \in U, folder_id \in FolderIds \cup {NULL} : schedule_sync(u, folder_id)
    /\ Served(max)
    /\ UNCHANGED <<dbvars, diskvars, sync_lock, issued, uservars, sysvars, uploading>>

\* an acquisition that succeeds whoever holds the lock
acquire_unguarded(lock) == TRUE

\* sync_lock.acquire(blocking=False): whether the caller got the lock
acquire(lock) == ~lock

\* the message is logged but the invocation goes on into the body
skip_without_return(t) ==
    /\ tasks' = [tasks EXCEPT ![t].pc = "body"]
    /\ UNCHANGED sync_lock

\* "Sync task is already running. Skipping this request." and return
skip_sync(t) ==
    /\ tasks' = [tasks EXCEPT ![t].pc = "skipped"]
    /\ UNCHANGED sync_lock

\* lines 54-58: the lock is taken, or the invocation returns
SyncAcquire ==
    /\ \E t \in DOMAIN tasks :
          /\ tasks[t].pc = "scheduled"
          /\ IF acquire(sync_lock)
             THEN /\ sync_lock' = TRUE
                  /\ tasks' = [tasks EXCEPT ![t].pc = "body", ![t].holds = TRUE]
             ELSE skip_sync(t)
    /\ UNCHANGED <<dbvars, diskvars, last, requests, now, events, issued, uservars, sysvars, uploading>>

\* lines 58-178: the body in one piece. Besides the ValueError of an invalid
\* scope the environment may fail it: in the walk before any row is flushed
\* ("walk"), at db.commit() with every id drawn ("commit"), or in
\* clean_directory after the commit ("cleanup"); except rolls back
SyncReconcile ==
    /\ \E t \in DOMAIN tasks :
          /\ tasks[t].pc = "body"
          /\ LET sy == SyncBody(folders, files, dirs, dfiles, nextFolderId, nextFileId,
                                tasks[t].user, tasks[t].folder_id)
             IN /\ ~sy.over
                /\ dirs' = sy.dirs
                /\ \E exit \in IF sy.outcome = "invalid" THEN {"invalid"}
                               ELSE SyncExits \ {"invalid"} :
                      /\ tasks' = [tasks EXCEPT ![t].pc = "finally", ![t].exit = exit]
                      /\ folders' = IF exit = "ok" THEN sy.folders
                                    ELSE IF exit = "cleanup" THEN sy.committed.folders
                                    ELSE folders
                      /\ files' = IF exit = "ok" THEN sy.files
                                  ELSE IF exit = "cleanup" THEN sy.committed.files
                                  ELSE files
                      /\ nextFolderId' = IF exit = "walk" \/ exit = "invalid"
                                         THEN nextFolderId ELSE sy.nfo
                      /\ nextFileId' = IF exit = "walk" \/ exit = "invalid"
                                       THEN nextFileId ELSE sy.nfi
    /\ UNCHANGED <<dfiles, sync_lock, last, requests, now, events, issued, uservars, sysvars, uploading>>

\* a release at the end of try instead of in finally: only after a sync
\* that ended well
release_after_success(t) ==
    IF tasks[t].exit = "ok"
    THEN /\ sync_lock' = FALSE
         /\ tasks' = [tasks EXCEPT ![t].pc = "returned", ![t].holds = FALSE]
    ELSE /\ tasks' = [tasks EXCEPT ![t].pc = "returned"]
         /\ UNCHANGED sync_lock

\* finally: sync_lock.release(), and the invocation returns
release(t) ==
    /\ sync_lock' = FALSE
    /\ tasks' = [tasks EXCEPT ![t].pc = "returned", ![t].holds = FALSE]

SyncRelease ==
    /\ \E t \in DOMAIN tasks : tasks[t].pc = "finally" /\ release(t)
    /\ UNCHANGED <<dbvars, diskvars, last, requests, now, events, issued, uservars, sysvars, uploading>>

Next ==
    \/ CreateFolder(Users, MaxRequests)
    \/ UploadFile(Users, MaxRequests)
    \/ ShareFile(Users, MaxRequests)
    \/ PreviewFile(Users, MaxRequests)
    \/ ListDirectory(Users, MaxRequests)
    \/ CleanDirectory(Users, MaxRequests)
    \/ DeleteItem(Users, MaxRequests)
    \/ MoveItem(Users, MaxRequests)
    \/ CopyItem(Users, MaxRequests)
    \/ RenameItem(Users, MaxRequests)

Spec == Init /\ [][Next]_vars

\* one user, more requests: the item service after longer histories
NextDeep ==
    \/ CreateFolder(DeepUsers, MaxDeep)
    \/ UploadFile(DeepUsers, MaxDeep)
    \/ DeleteItem(DeepUsers, MaxDeep)
    \/ MoveItem(DeepUsers, MaxDeep)
    \/ CopyItem(DeepUsers, MaxDeep)
    \/ RenameItem(DeepUsers, MaxDeep)

SpecDeep == Init /\ [][NextDeep]_vars

\* the sync tasks beside the requests that feed them
NextSync ==
    \/ CreateFolder(Users, MaxSyncRequests)
    \/ UploadFile(Users, MaxSyncRequests)
    \/ ScheduleSync(Users, MaxSyncRequests)
    \/ SyncAcquire
    \/ SyncReconcile
    \/ SyncRelease

SpecSync == Init /\ [][NextSync]_vars

\* ------------------------------------------------ the disk, out of band
\* the directories an out-of-band change may touch: the user's own and
\* those up to MaxDiskDepth below it
DiskDirs(u) ==
    {StoragePath(u, <<>>)}
    \cup {StoragePath(u, <<n>>) : n \in FolderNames}
    \cup (IF MaxDiskDepth < 2 THEN {}
          ELSE {StoragePath(u, <<n, m>>) : n \in FolderNames, m \in FolderNames})

\* one more change of the environment
Happened == events < MaxEvents /\ events' = events + 1

\* somebody creates a directory under the user's storage (found by os.walk)
ExternalMkdir(U) ==
    /\ \E u \in U : \E d \in DiskDirs(u) :
          /\ ~Exists(dirs, dfiles, d)
          /\ dirs' = Makedirs(dirs, d)
    /\ Happened
    /\ UNCHANGED <<dbvars, dfiles, last, requests, now, issued, syncvars, uservars, sysvars, uploading>>

\* somebody writes a file into a directory of the user (found by os.walk)
ExternalWrite(U) ==
    /\ \E u \in U : \E d \in DiskDirs(u), n \in FileNames :
          /\ d \in dirs
          /\ ~Exists(dirs, dfiles, d \o <<n>>)
          /\ dfiles' = dfiles \cup {d \o <<n>>}
    /\ Happened
    /\ UNCHANGED <<dbvars, dirs, last, requests, now, issued, syncvars, uservars, sysvars, uploading>>

\* somebody removes a file, or a directory with all in it (seen by
\* os.path.exists)
ExternalRemove(U) ==
    /\ \E u \in U, p \in dirs \cup dfiles :
          /\ IsPrefix(StoragePath(u, <<>>), p) /\ p # StoragePath(u, <<>>)
          /\ dirs' = Rmtree(dirs, p)
          /\ dfiles' = Rmtree(dfiles, p)
    /\ Happened
    /\ UNCHANGED <<dbvars, last, requests, now, issued, syncvars, uservars, sysvars, uploading>>

\* requests of one user, listings with their sync, and out-of-band changes
NextDisk ==
    \/ CreateFolder(DeepUsers, MaxDiskRequests)
    \/ UploadFile(DeepUsers, MaxDiskRequests)
    \/ MoveItem(DeepUsers, MaxDiskRequests)
    \/ ListDirectory(DeepUsers, MaxDiskRequests)
    \/ ExternalMkdir(DeepUsers)
    \/ ExternalWrite(DeepUsers)
    \/ ExternalRemove(DeepUsers)

SpecDisk == Init /\ [][NextDisk]_vars

\* requests of one user that make duplicates, and their cleanup
NextClean ==
    \/ CreateFolder(DeepUsers, MaxCleanRequests)
    \/ UploadFile(DeepUsers, MaxCleanRequests)
    \/ MoveItem(DeepUsers, MaxCleanRequests)
    \/ CleanDirectory(DeepUsers, MaxCleanRequests)

SpecClean == Init /\ [][NextClean]_vars

\* share links of one user while the clock runs
NextShare ==
    \/ UploadFile(DeepUsers, MaxShareRequests)
    \/ ShareFor(DeepUsers, LongHours, MaxShareRequests)
    \/ DeleteItem(DeepUsers, MaxShareRequests)
    \/ CopyItem(DeepUsers, MaxShareRequests)
    \/ MoveItem(DeepUsers, MaxShareRequests)
    \/ RenameItem(DeepUsers, MaxShareRequests)
    \/ GetSharedFile(MaxShareRequests)
    \/ Tick

SpecShare == Init /\ [][NextShare]_vars

\* trees of one user built, rearranged and deleted
NextDelete ==
    \/ CreateFolder(DeepUsers, MaxDeleteRequests)
    \/ UploadFile(DeepUsers, MaxDeleteRequests)
    \/ MoveItem(DeepUsers, MaxDeleteRequests)
    \/ DeleteItem(DeepUsers, MaxDeleteRequests)

SpecDelete == Init /\ [][NextDelete]_vars

\* uploads and copies with names that meet the generated ones
NextNames ==
    \/ CreateFolder(Users, MaxNameRequests)
    \/ UploadNamed(Users, NameFiles, MaxNameRequests)
    \/ CopyItem(Users, MaxNameRequests)

SpecNames == Init /\ [][NextNames]_vars

\* ================================================================ claims
ItemOps == {"delete_item", "move_item", "copy_item", "rename_item"}

\* C1: no two FileMetadata rows with the same owner and the same folder (the
\* root, NULL, included) have the same filename
C1_UniqueSiblingFilenames ==
    \A x \in files, y \in files :
        (x.id # y.id /\ x.owner_id = y.owner_id /\ x.folder_id = y.folder_id)
            => x.filename # y.filename

\* following parent_id from id reaches NULL within the given number of steps
RECURSIVE ReachesRoot(_, _, _)
ReachesRoot(Fs, id, steps) ==
    \/ id = NULL
    \/ /\ steps > 0
       /\ Found(FolderById(Fs, id))
       /\ ReachesRoot(Fs, FolderById(Fs, id).parent_id, steps - 1)

\* C2: the Folder parent relation is acyclic: from every Folder row the
\* parent_id links reach NULL after finitely many steps
C2_ParentAcyclic ==
    \A f \in folders : ReachesRoot(folders, f.id, Cardinality(folders))

\* C2 witness: a folder has just been moved below another folder
C2_FolderMoved ==
    /\ last.op = "move_item" /\ last.kind = FOLDER /\ last.status = 200
    /\ \E f \in folders : f.parent_id # NULL

\* the path a row's place in the tree resolves to: storage root, owner id,
\* the names of the folder's ancestors from the root down, the folder's name
ResolvedPath(owner_id, folder_id) ==
    StoragePath(owner_id, NameChain(folders, folder_id, MaxFolders))

\* C3: after a successful create-folder, upload, move, copy, rename or delete
\* request every Folder row has its directory at the resolved path, and every
\* FileMetadata row's filepath is on disk and is the resolved path of its
\* folder joined with its filename
C3_DiskMatchesRows ==
    (/\ last.op \in ItemOps \cup {"create_folder", "upload_file"}
     /\ last.status = 200)
    => /\ \A f \in folders : ResolvedPath(f.owner_id, f.id) \in dirs
       /\ \A x \in files :
             /\ x.filepath \in dfiles
             /\ x.filepath = ResolvedPath(x.owner_id, x.folder_id) \o <<x.filename>>

\* C4: a request authenticated as a user leaves every row of every other
\* owner as it was, adds no row for another owner, and returns no row of
\* another owner
C4_OwnerIsolation ==
    [][LET A == last'.user
       IN /\ {f \in folders : f.owner_id # A} = {f \in folders' : f.owner_id # A}
          /\ {x \in files : x.owner_id # A} = {x \in files' : x.owner_id # A}
          /\ \A r \in last'.ret :
                /\ r[1] = FOLDER =>
                      \A f \in folders \cup folders' : f.id = r[2] => f.owner_id = A
                /\ r[1] = FILE =>
                      \A x \in files \cup files' : x.id = r[2] => x.owner_id = A]_vars

\* C4 witness: a user's delete has gone through while another user owns rows
C4_DeleteBesideOtherOwner ==
    /\ last.op = "delete_item" /\ last.status = 200
    /\ \E x \in files : x.owner_id # last.user

\* C8: a move of folder A into A or into a descendant of A is rejected and
\* leaves every row, directory and file as it was
C8_MoveIntoItselfRejected ==
    [][\A u \in Users, item_id \in FolderIds, destination_folder_id \in FolderIds :
          (/\ Found(OwnedFolder(folders, item_id, u))
           /\ destination_folder_id \in
                 {item_id} \cup Descendants(folders, item_id, MaxFolders)
           /\ move_item(u, FOLDER, item_id, destination_folder_id))
          => /\ last'.status # 200
             /\ UNCHANGED <<folders, files, dirs, dfiles>>]_vars

\* C8 witness: move_item has just refused to move a folder into itself or
\* below itself
C8_MoveRefused ==
    last.op = "move_item" /\ last.kind = FOLDER /\ last.raised = "400"

\* C9: in delete, move, copy, rename and create-folder a 404 or 400 that was
\* raised is the status the caller gets, and 500 is only for other exceptions
C9_StatusKept ==
    last.op \in ItemOps \cup {"create_folder"}
    => /\ last.raised = "404" => last.status = 404
       /\ last.raised = "400" => last.status = 400
       /\ last.status = 500 => last.raised = "error"

\* C10: a delete, move, copy or rename that reports an error leaves the rows
\* as they were, and a folder copy that reports success has cloned the whole
\* subtree: one new Folder row for the folder and each folder below it, one new
\* FileMetadata row for each file in them
C10_AllOrNothing ==
    [][last'.op \in ItemOps =>
          /\ last'.status # 200 => (folders' = folders /\ files' = files)
          /\ \A u \in Users, item_id \in FolderIds,
                destination_folder_id \in FolderIds \cup {NULL} :
                (/\ copy_item(u, FOLDER, item_id, destination_folder_id)
                 /\ last'.status = 200)
                => LET tree == {item_id} \cup Descendants(folders, item_id, MaxFolders)
                   IN /\ Cardinality(folders') = Cardinality(folders) + Cardinality(tree)
                      /\ Cardinality(files') = Cardinality(files)
                            + Cardinality({x \in files : x.folder_id \in tree})]_vars

\* C5: at most one invocation of sync_directory_with_db is between the
\* acquisition of sync_lock and its release
C5_OneSyncInBody ==
    \A t1 \in DOMAIN tasks, t2 \in DOMAIN tasks : (InBody(t1) /\ InBody(t2)) => t1 = t2

\* C5 witness: one invocation is in the body while another user's invocation
\* has come and gone
C5_SecondCameWhileFirstRan ==
    \E t1 \in DOMAIN tasks, t2 \in DOMAIN tasks :
        /\ InBody(t1) /\ tasks[t2].pc = "skipped"
        /\ tasks[t1].user # tasks[t2].user

\* C6: an invocation that comes while another runs the body returns at once:
\* it changes no row and nothing on disk, and it never reconciles later
C6_SecondSyncDropped ==
    [][\A t \in DOMAIN tasks :
          /\ (/\ tasks[t].pc = "scheduled"
              /\ tasks'[t].pc # "scheduled"
              /\ \E t1 \in DOMAIN tasks : InBody(t1))
             => /\ tasks'[t].pc = "skipped"
                /\ UNCHANGED <<dbvars, diskvars>>
          /\ tasks[t].pc = "skipped" => tasks'[t] = tasks[t]]_vars

\* C6 witness: of two invocations one has reconciled and returned, the other
\* was dropped
C6_OnePassOfTwo ==
    \E t1 \in DOMAIN tasks, t2 \in DOMAIN tasks :
        /\ tasks[t1].pc = "returned" /\ tasks[t1].exit = "ok"
        /\ tasks[t2].pc = "skipped"

\* C7: an invocation that has returned does not hold sync_lock, whatever way
\* its body ended; the lock is held only while some invocation is in the body;
\* and an invocation is dropped only while another one is in the body
C7_LockReleased ==
    /\ [](/\ \A t \in DOMAIN tasks : tasks[t].pc = "returned" => ~tasks[t].holds
          /\ sync_lock <=> \E t \in DOMAIN tasks : InBody(t))
    /\ [][\A t \in DOMAIN tasks :
             (tasks[t].pc = "scheduled" /\ tasks'[t].pc = "skipped")
                => \E t1 \in DOMAIN tasks : InBody(t1)]_vars

\* C7 witness: an invocation whose body failed has returned and a later
\* invocation has got the lock
C7_AcquiredAfterFailure ==
    \E t1 \in DOMAIN tasks, t2 \in DOMAIN tasks :
        /\ t1 < t2
        /\ tasks[t1].pc = "returned" /\ tasks[t1].exit \in SyncExits \ {"ok"}
        /\ tasks[t2].pc = "body"

\* base_k+ext for the least k >= 1 for which that name is not in taken
LeastNumbered(base, ext, taken) ==
    LET Numbered(k) == base \o <<Counter(k)>> \o ext
        k == CHOOSE i \in 1..(Cardinality(taken) + 1) :
                /\ Numbered(i) \notin taken
                /\ \A j \in 1..(i - 1) : Numbered(j) \in taken
    IN Numbered(k)

\* C11: an upload of <base><ext> into a folder where the user has a file of
\* that name is stored as <base>_<k><ext> for the least k >= 1 that is free
\* among the user's files there; otherwise the name is stored unchanged
C11_UploadRenames ==
    [][\A u \in Users, filename \in NameFiles, folder_id \in FolderIds \cup {NULL} :
          (upload_file(u, filename, folder_id) /\ last'.status = 200)
          => LET mine == {x.filename : x \in {y \in files :
                              y.owner_id = u /\ y.folder_id = folder_id}}
                 sp == Splitext(filename)
                 expected == IF filename \in mine
                             THEN LeastNumbered(sp.base, sp.ext, mine) ELSE filename
             IN \E x \in files' \ files :
                   /\ files' = files \cup {x}
                   /\ x.filename = expected
                   /\ x.owner_id = u /\ x.folder_id = folder_id]_vars

\* C11 witness: the third upload of f.txt was stored as f_2.txt
C11_ThirdUpload ==
    /\ last.op = "upload_file" /\ last.status = 200
    /\ \E x \in files, y \in files, z \in files :
          /\ x.owner_id = y.owner_id /\ y.owner_id = z.owner_id
          /\ x.folder_id = y.folder_id /\ y.folder_id = z.folder_id
          /\ x.filename = <<"f", ".txt">>
          /\ y.filename = <<"f", "_1", ".txt">>
          /\ z.filename = <<"f", "_2", ".txt">> /\ <<FILE, z.id>> \in last.ret

\* C12: a copy of file <base><ext> into a destination where the user has a
\* file of that name adds a row named <base>_copy<ext> if that name is free
\* among the user's files in the destination, otherwise <base>_copy_<k><ext>
\* for the least free k >= 1; the name is never one already in the destination
C12_CopyRenames ==
    [][\A u \in Users, item_id \in FileIds, dest \in FolderIds \cup {NULL} :
          (copy_item(u, FILE, item_id, dest) /\ last'.status = 200)
          => LET file == CHOOSE x \in files : x.id = item_id
                 there == {x.filename : x \in {y \in files :
                               y.owner_id = u /\ y.folder_id = dest}}
                 sp == Splitext(file.filename)
                 copy == sp.base \o <<"_copy">> \o sp.ext
                 expected == IF copy \notin there THEN copy
                             ELSE LeastNumbered(sp.base \o <<"_copy">>, sp.ext, there)
             IN \E x \in files' \ files :
                   /\ x.filename \notin there
                   /\ file.filename \in there => x.filename = expected]_vars

\* C13: a successful rename of a folder, at the root or nested, replaces the
\* folder's old resolved path by the new one at the front of the filepath of
\* every FileMetadata row in the folder or below it, keeps each such row's
\* filename, and renames the directory on disk accordingly
C13_RenameRebases ==
    [][\A u \in Users, item_id \in FolderIds, new_name \in FolderNames :
          (/\ rename_item(u, FOLDER, item_id, new_name) /\ last'.status = 200
           /\ FolderById(folders, item_id).name # new_name)
          => LET old == ResolvedPath(u, item_id)
                 new == Front(old) \o <<new_name>>
                 below == {x \in files :
                              item_id \in ParentWalk(folders, x.folder_id, MaxFolders)}
             IN /\ \A x \in below : \E y \in files' :
                       /\ y.id = x.id
                       /\ y.filename = x.filename
                       /\ IsPrefix(old, x.filepath)
                             => y.filepath = Rebase(x.filepath, old, new)
                /\ new \in dirs'
                /\ old # new => old \notin dirs']_vars

\* C14: a successful delete of folder F removes F's row, every Folder row
\* with F among its ancestors and every FileMetadata row in F or in such a
\* folder, and leaves every other Folder and FileMetadata row unchanged
C14_DeleteRemovesSubtree ==
    [][\A u \in Users, item_id \in FolderIds :
          (delete_item(u, FOLDER, item_id) /\ last'.status = 200)
          => /\ folders' = {f \in folders :
                               item_id \notin ParentWalk(folders, f.id, MaxFolders)}
             /\ files' = {x \in files :
                             item_id \notin ParentWalk(folders, x.folder_id, MaxFolders)}]_vars

\* C14 witness: one delete removed a folder together with the two folders
\* and the file below it, and no row is left
C14_NestedDeleted ==
    /\ last.op = "delete_item" /\ last.kind = FOLDER /\ last.status = 200
    /\ requests = 5 /\ nextFolderId = 4 /\ nextFileId = 2
    /\ folders = {} /\ files = {}

\* C15: a successful delete of folder F removes from disk nothing but F's own
\* directory tree: every directory and file that is removed lies at or under
\* F's resolved path, also when F is nested and a root folder has F's name
C15_DeleteRemovesOwnTree ==
    [][\A u \in Users, item_id \in FolderIds :
          (delete_item(u, FOLDER, item_id) /\ last'.status = 200)
          => LET own == ResolvedPath(u, item_id)
             IN /\ \A p \in dirs \ dirs' : IsPrefix(own, p)
                /\ \A p \in dfiles \ dfiles' : IsPrefix(own, p)]_vars

\* the files on disk under base that no FileMetadata row of the user matches,
\* by its filepath or by the resolved path of its folder and its filename
Unregistered(u, base) ==
    {p \in dfiles :
        /\ IsPrefix(base, p)
        /\ \A x \in files : x.owner_id = u =>
              /\ x.filepath # p
              /\ ResolvedPath(u, x.folder_id) \o <<x.filename>> # p}

\* C16: a completed sync inserts exactly one FileMetadata row for each file
\* on disk under its base path that no row matched, with the file's name,
\* the user as owner and the folder whose resolved path is the file's
\* directory (NULL for a file directly in the user's directory)
C16_SyncRegistersFile ==
    [][\A u \in DeepUsers, folder_id \in FolderIds \cup {NULL} :
          (list_directory(u, folder_id) /\ last'.status = 200)
          => \A p \in Unregistered(u, ResolvedPath(u, folder_id)) :
                LET for_it == {y \in files' : y.filepath = p
                                              /\ y.id \notin {x.id : x \in files}}
                IN /\ Cardinality(for_it) = 1
                   /\ \A y \in for_it :
                         /\ y.filename = Last(p)
                         /\ y.owner_id = u
                         /\ StoragePath(u, NameChain(folders', y.folder_id, MaxFolders))
                               = Dirname(p)
                         /\ Dirname(p) = StoragePath(u, <<>>) => y.folder_id = NULL]_vars

\* C17: sync is idempotent: when a sync has completed and one more sync for
\* the same user and scope runs on the tables and the disk it left, and
\* completes, the Folder and FileMetadata rows after the second are those
\* after the first
C17_SyncIdempotent ==
    [][\A u \in DeepUsers, folder_id \in FolderIds \cup {NULL} :
          LET first == SyncBody(folders, files, dirs, dfiles, nextFolderId, nextFileId,
                                u, folder_id)
              second == SyncBody(folders', files', dirs', dfiles', nextFolderId',
                                 nextFileId', u, folder_id)
          IN (/\ list_directory(u, folder_id) /\ last'.status = 200
              /\ first.outcome = "ok" /\ second.outcome = "ok")
             => /\ second.folders = folders'
                /\ second.files = files']_vars

\* C18: a completed sync deletes every FileMetadata row in its scope whose
\* file is not on disk and every Folder row in its scope whose directory is
\* not on disk, and leaves no row whose parent Folder row it has deleted
C18_SyncDeletesOrphans ==
    [][\A u \in DeepUsers, folder_id \in FolderIds \cup {NULL} :
          LET base == ResolvedPath(u, folder_id)
              deleted == {g.id : g \in folders} \ {g.id : g \in folders'}
          IN (/\ list_directory(u, folder_id) /\ last'.status = 200
              /\ Exists(dirs, dfiles, base))
             => /\ \A x \in files :
                      LET path == ResolvedPath(u, x.folder_id) \o <<x.filename>>
                      IN (x.owner_id = u /\ IsPrefix(base, path)
                          /\ ~Exists(dirs, dfiles, path))
                         => x.id \notin {y.id : y \in files'}
                /\ \A g \in folders :
                      (g.owner_id = u /\ IsPrefix(base, ResolvedPath(u, g.id))
                       /\ ~Exists(dirs, dfiles, ResolvedPath(u, g.id)))
                      => g.id \in deleted
                /\ \A x \in files : x.folder_id \in deleted
                                       => x.id \notin {y.id : y \in files'}
                /\ \A g \in folders : g.parent_id \in deleted => g.id \in deleted]_vars

\* the rows that share owner, folder, filename and MIME type with x
DuplicateGroup(x) ==
    {y \in files : /\ y.owner_id = x.owner_id /\ y.folder_id = x.folder_id
                   /\ y.filename = x.filename /\ y.mimetype = x.mimetype}

\* C19: a duplicate cleanup leaves, of every group of two or more rows of
\* the user with one folder, filename and MIME type in the cleaned subtree,
\* exactly one row, with the least uploaded_at of the group, and leaves the
\* rows of no such group unchanged
C19_CleanKeepsEarliest ==
    [][\A u \in DeepUsers, folder_id \in FolderIds \cup {NULL} :
          (clean_directory(u, folder_id) /\ last'.status = 200)
          => LET cleaned(x) ==
                     /\ x.owner_id = u
                     /\ folder_id = NULL
                        \/ folder_id \in ParentWalk(folders, x.folder_id, MaxFolders)
                 grouped == {x \in files : cleaned(x)
                                           /\ Cardinality(DuplicateGroup(x)) >= 2}
             IN /\ \A x \in grouped :
                       LET kept == DuplicateGroup(x) \cap files'
                       IN /\ Cardinality(kept) = 1
                          /\ \A y \in kept, z \in DuplicateGroup(x) :
                                y.uploaded_at <= z.uploaded_at
                /\ \A x \in files \ grouped : x \in files']_vars

\* C20: retrieval with the token of a shared file returns the file at every
\* time before the file's share expiry and answers 404 at every time after
\* it, the row still being there
C20_ShareExpiryGates ==
    [][\A share_token \in issued, x \in files :
          (/\ x.id = share_token.file_id
           /\ x.share_token = share_token
           /\ get_shared_file(share_token))
          => /\ now < x.share_expiry
                   => last'.status = 200 /\ last'.ret = {<<FILE, x.id>>}
             /\ now > x.share_expiry => last'.status = 404]_vars

\* C21: shared-file retrieval returns a row only for an issued token that
\* carries the row's id while the row is public and the time is before its
\* share_expiry; is_public and share_expiry are set by share requests only
\* (to now + hours), so a file never shared, a copy, or a file whose latest
\* share has run out is not returned
C21_OnlyLiveShares ==
    /\ [][\A share_token \in issued \cup {NoToken} :
             (get_shared_file(share_token) /\ last'.status = 200)
             => /\ share_token \in issued
                /\ \E x \in files :
                      /\ x.id = share_token.file_id
                      /\ last'.ret = {<<FILE, x.id>>}
                      /\ x.is_public
                      /\ now < x.share_expiry
                      /\ \E t \in issued : t.file_id = x.id /\ t.exp = x.share_expiry]_vars
    /\ [][\A y \in files' :
             LET before == {x \in files : x.id = y.id}
             IN /\ before = {} => ~y.is_public
                /\ \A x \in before :
                      (x.is_public # y.is_public \/ x.share_expiry # y.share_expiry)
                      => /\ last'.op = "share_file"
                         /\ y.is_public
                         /\ \E h \in LongHours : y.share_expiry = now + h]_vars

\* C21 witness: a file shared for two hours when the clock stood at one
\* was retrieved with the token of that share
C21_RetrievedLater ==
    /\ last.op = "get_shared_file" /\ last.status = 200
    /\ \E x \in files : /\ <<FILE, x.id>> \in last.ret
                        /\ x.share_expiry = 3
                        /\ x.share_token = [file_id |-> x.id, exp |-> 3]

\* listings beside uploads and files written out of band
MaxListRequests == 3
NextList ==
    \/ CreateFolder(DeepUsers, MaxListRequests)
    \/ UploadFile(DeepUsers, MaxListRequests)
    \/ ListDirectory(DeepUsers, MaxListRequests)
    \/ ExternalWrite(DeepUsers)

SpecList == Init /\ [][NextList]_vars

\* ------------------------------------------ user_management_service.py
MaxUsers == 2          \* rows the users.id sequence hands out
MaxUserRequests == 3   \* requests of a run of the user service

Usernames == {"ann", "bob"}
Emails == {"a@x", "b@x"}
Passwords == {"p", "q"}
Privileges == {"user", "administrator"}
UserIds == 1..MaxUsers
\* an optional field of a request body: {} when it is left out (None)
Optional(S) == {{}} \cup {{v} : v \in S}

SECRET_KEY == "f53b328f"
NoSub == ""                 \* payload.get("sub") of a token without that claim
MinutesPerHour == 60
DefaultExpireMinutes == 15  \* create_jwt_token without expires_delta
\* no Authorization header with a bearer token
NoBearer == [sub |-> NoSub, exp |-> NULL, key |-> "absent"]

\* pwd_context.hash and pwd_context.verify (the salt is left out)
hash(password) == <<"bcrypt", password>>
verify(password, hashed_password) == hashed_password = hash(password)

\* User._sync_admin_status
sync_admin_status(user) == [user EXCEPT !.is_admin = (user.privilege = "administrator")]

\* User(**kwargs): the columns are assigned, then _sync_admin_status runs
User(id, username, email, hashed_password, is_admin, privilege) ==
    sync_admin_status([id |-> id, username |-> username, email |-> email,
                       hashed_password |-> hashed_password, is_admin |-> is_admin,
                       privilege |-> privilege])

\* user.privilege = value: the 'set' listener runs _sync_admin_status while
\* the attribute still holds the old value, then the new value is stored
set_privilege(user, value) == [sync_admin_status(user) EXCEPT !.privilege = value]

\* db.query(User).filter(User.id == user_id).first()
UserById(Us, user_id) ==
    IF \E r \in Us : r.id = user_id THEN CHOOSE r \in Us : r.id = user_id ELSE NoRow
\* db.query(User).filter(User.username == username).first()
UserByName(Us, username) ==
    IF \E r \in Us : r.username = username
    THEN CHOOSE r \in Us : r.username = username ELSE NoRow

\* the unique constraints of users.username and users.email
UniqueUsers(Us) ==
    \A r1, r2 \in Us : r1.id # r2.id => r1.username # r2.username /\ r1.email # r2.email

\* create_jwt_token({"sub": username}, timedelta(minutes=m)): the claims signed
create_access_token(username, minutes) ==
    [sub |-> username, exp |-> now * MinutesPerHour + minutes, key |-> SECRET_KEY]

\* on_delete of the relationships User.files and User.folders: the rows of a
\* deleted user lose their owner_id
Disown(rows, user_id) ==
    {IF r.owner_id = user_id THEN [r EXCEPT !.owner_id = NULL] ELSE r : r \in rows}

\* POST create_user
create_user(username, email, password, is_admin, privilege) ==
    LET db_user == User(nextUserId, username, email, hash(password), is_admin, privilege)
        access_token == create_access_token(username, DefaultExpireMinutes)
    IN /\ nextUserId' = nextUserId + 1
       /\ IF ~UniqueUsers(users \cup {db_user})
          THEN \* IntegrityError: logged, None is returned, and None is no Token
               /\ last' = Response("create_user", NULL, "user", "error", 500, {})
               /\ UNCHANGED <<users, granted, bearers>>
          ELSE /\ users' = users \cup {db_user}
               /\ granted' = granted \cup {access_token}
               /\ bearers' = bearers \cup {<<access_token, db_user.id>>}
               /\ last' = Response("create_user", db_user.id, "user", "none", 200,
                                   {<<"access_token", access_token>>,
                                    <<"token_type", "bearer">>})

CreateUser(max) ==
    /\ nextUserId <= MaxUsers
    /\ \E username \in Usernames, email \in Emails, password \in Passwords,
          is_admin \in BOOLEAN, privilege \in Privileges :
          create_user(username, email, password, is_admin, privilege)
    /\ Served(max)
    /\ UNCHANGED <<dbvars, diskvars, syncvars, issued, sysvars, uploading>>

\* configparser's config.get gives the text of the option: a str
ACCESS_TOKEN_EXPIRE_MINUTES == [type |-> "str", value |-> 30]
\* timedelta(minutes=m): TypeError unless m is a number
TypeError == -1
timedelta(m) == IF m.type = "int" THEN m.value ELSE TypeError

\* POST login
login(username, password) ==
    LET user == UserByName(users, username)
        access_token_expires == timedelta(ACCESS_TOKEN_EXPIRE_MINUTES)
        access_token == create_access_token(username, access_token_expires)
    IN IF ~Found(user) \/ ~verify(password, user.hashed_password)
       THEN \* HTTPException(400) is caught by except Exception; None is
            \* returned, and None is no Token
            /\ last' = Response("login", NULL, "user", "400", 500, {})
            /\ UNCHANGED uservars
       ELSE IF access_token_expires = TypeError
       THEN /\ last' = Response("login", user.id, "user", "error", 500, {})
            /\ UNCHANGED uservars
       ELSE /\ granted' = granted \cup {access_token}
            /\ bearers' = bearers \cup {<<access_token, user.id>>}
            /\ last' = Response("login", user.id, "user", "none", 200,
                                {<<"access_token", access_token>>,
                                 <<"token_type", "bearer">>})
            /\ UNCHANGED <<users, nextUserId>>

Login(max) ==
    /\ \E username \in Usernames, password \in Passwords : login(username, password)
    /\ Served(max)
    /\ UNCHANGED <<dbvars, diskvars, syncvars, issued, sysvars, uploading>>

\* PUT update_user
edit_user(user_id, username, email, is_admin, privilege) ==
    LET user == UserById(users, user_id)
        named == IF username = {} THEN user
                 ELSE [user EXCEPT !.username = CHOOSE v \in username : TRUE]
        mailed == IF email = {} THEN named
                  ELSE [named EXCEPT !.email = CHOOSE v \in email : TRUE]
        flagged == IF is_admin = {} THEN mailed
                   ELSE [mailed EXCEPT !.is_admin = CHOOSE v \in is_admin : TRUE]
        updated == IF privilege = {} THEN flagged
                   ELSE set_privilege(flagged, CHOOSE v \in privilege : TRUE)
    IN IF ~Found(user)
       THEN \* HTTPException(404) is caught by except Exception
            /\ last' = Response("edit_user", NULL, "user", "404", 500, {})
            /\ UNCHANGED uservars
       ELSE IF ~UniqueUsers((users \ {user}) \cup {updated})
       THEN /\ last' = Response("edit_user", NULL, "user", "error", 500, {})
            /\ UNCHANGED uservars
       ELSE /\ users' = (users \ {user}) \cup {updated}
            /\ last' = Response("edit_user", user_id, "user", "none", 200,
                                {<<"user", user_id>>})
            /\ UNCHANGED <<nextUserId, granted, bearers>>

EditUser(max) ==
    /\ \E user_id \in UserIds, username \in Optional(Usernames), email \in Optional(Emails),
          is_admin \in Optional(BOOLEAN), privilege \in Optional(Privileges) :
          edit_user(user_id, username, email, is_admin, privilege)
    /\ Served(max)
    /\ UNCHANGED <<dbvars, diskvars, syncvars, issued, sysvars, uploading>>

\* DELETE delete_user
delete_user(user_id) ==
    LET user == UserById(users, user_id)
    IN IF ~Found(user)
       THEN /\ last' = Response("delete_user", NULL, "user", "404", 500, {})
            /\ UNCHANGED <<users, folders, files>>
       ELSE /\ users' = users \ {user}
            /\ folders' = Disown(folders, user_id)
            /\ files' = Disown(files, user_id)
            /\ last' = Response("delete_user", user_id, "user", "none", 204, {})

DeleteUser(max) ==
    /\ \E user_id \in UserIds : delete_user(user_id)
    /\ Served(max)
    /\ UNCHANGED <<nextFolderId, nextFileId, nextUserId, granted, bearers, diskvars, syncvars, issued, sysvars, uploading>>

\* ------------------------------------------ user_management_handler.py
credentials_exception ==
    [status |-> 401, detail |-> "Could not validate credentials",
     headers |-> "WWW-Authenticate: Bearer", user |-> NoRow]
\* OAuth2PasswordBearer(tokenUrl="token") when the request carries no bearer token
not_authenticated ==
    [status |-> 401, detail |-> "Not authenticated",
     headers |-> "WWW-Authenticate: Bearer", user |-> NoRow]

\* Depends(get_current_user): jwt.decode raises a PyJWTError for a token
\* signed with another key and for a token whose exp has passed
get_current_user(token) ==
    LET user == UserByName(users, token.sub)
    IN IF token = NoBearer THEN not_authenticated
       ELSE IF token.key # SECRET_KEY \/ token.exp <= now * MinutesPerHour
       THEN credentials_exception
       ELSE IF token.sub = NoSub THEN credentials_exception
       ELSE IF ~Found(user) THEN credentials_exception
       ELSE [status |-> 200, detail |-> "", headers |-> "", user |-> user]

\* the bearer tokens a client can present: none, one it was given, one it
\* was given re-signed with another key, and a share token, which is signed
\* with SECRET_KEY and carries file_id and exp but no sub
Presented ==
    {NoBearer} \cup granted \cup {[t EXCEPT !.key = "forged"] : t \in granted}
    \cup {[sub |-> NoSub, exp |-> (now + h) * MinutesPerHour, key |-> SECRET_KEY] :
             h \in ShareHours}

\* GET profile
user_profile(token) ==
    LET current_user == get_current_user(token)
    IN /\ IF current_user.status # 200
          THEN last' = Response("user_profile", NULL, "user", "401", current_user.status,
                                {<<"detail", current_user.detail>>,
                                 <<"headers", current_user.headers>>})
          ELSE last' = Response("user_profile", current_user.user.id, "user", "none", 200,
                                {<<"username", current_user.user.username>>,
                                 <<"email", current_user.user.email>>,
                                 <<"privilege", current_user.user.privilege>>})
       /\ UNCHANGED <<dbvars, diskvars, uservars>>

UserProfile(max) ==
    /\ \E token \in Presented : user_profile(token)
    /\ Served(max)
    /\ UNCHANGED <<syncvars, issued, sysvars, uploading>>

NextUsers ==
    \/ CreateUser(MaxUserRequests)
    \/ EditUser(MaxUserRequests)
    \/ DeleteUser(MaxUserRequests)
    \/ Login(MaxUserRequests)
    \/ UserProfile(MaxUserRequests)
    \/ Tick

SpecUsers == Init /\ [][NextUsers]_vars

\* C22: after create_user and after edit_user, a user's is_admin flag is
\* true exactly when the user's privilege is "administrator"
C22_AdminFollowsPrivilege ==
    \A r \in users : r.is_admin <=> (r.privilege = "administrator")

\* the causes for which a bearer token does not authenticate a request
AuthFails(token) ==
    \/ token = NoBearer
    \/ token.key # SECRET_KEY
    \/ token.exp <= now * MinutesPerHour
    \/ token.sub = NoSub
    \/ ~\E r \in users : r.username = token.sub

\* C23: every authentication failure of an authenticated route (no token,
\* bad signature, expired token, no sub claim, unknown user) is answered with
\* status 401, detail "Could not validate credentials" and the header
\* WWW-Authenticate: Bearer, whatever its cause, and changes no state
C23_UniformRejection ==
    [][\A token \in Presented :
          (user_profile(token) /\ AuthFails(token))
          => /\ last'.status = 401
             /\ last'.ret = {<<"detail", "Could not validate credentials">>,
                             <<"headers", "WWW-Authenticate: Bearer">>}
             /\ UNCHANGED <<dbvars, diskvars, uservars>>]_vars

\* C26: a login with the name and password of an existing user returns a
\* bearer token whose sub is the username and whose exp is the current time
\* plus ACCESS_TOKEN_EXPIRE_MINUTES; any other login is answered 400 and
\* issues no token
C26_LoginAnswers ==
    [][\A username \in Usernames, password \in Passwords :
          login(username, password)
          => IF \E r \in users : r.username = username /\ verify(password, r.hashed_password)
             THEN /\ last'.status = 200
                  /\ <<"token_type", "bearer">> \in last'.ret
                  /\ \E e \in last'.ret :
                        /\ e[1] = "access_token"
                        /\ e[2].sub = username
                        /\ e[2].exp = now * MinutesPerHour + ACCESS_TOKEN_EXPIRE_MINUTES.value
             ELSE /\ last'.status = 400
                  /\ granted' = granted]_vars

\* the sessions of the requests served so far
RequestSessions == {get_db(n) : n \in 1..requests}

\* C27: every unit of work has a database session of its own: a background
\* sync never works on the session of a request, the one that scheduled it
\* included, and no two syncs work on one session
C27_OwnSessions ==
    /\ \A t \in DOMAIN tasks : tasks[t].db \notin RequestSessions
    /\ \A t1, t2 \in DOMAIN tasks : t1 # t2 => tasks[t1].db # tasks[t2].db

\* the entries of S directly in directory p
ChildrenOf(S, p) == {q \in S : Len(q) = Len(p) + 1 /\ IsPrefix(p, q)}

\* C24: once a list-directory request for a folder (or the root) has returned
\* and the sync it scheduled has run to its end, the next listing of that
\* folder returns exactly the subfolders and files that are on disk in it: one row
\* for each, and no row for anything else
C24_ListingReconciled ==
    [][\A u \in DeepUsers, folder_id \in FolderIds \cup {NULL} :
          (/\ list_directory(u, folder_id)
           /\ last'.status = 200
           /\ SyncBody(folders, files, dirs, dfiles, nextFolderId, nextFileId,
                       u, folder_id).outcome = "ok"
           /\ folder_id # NULL => Found(OwnedFolder(folders', folder_id, u)))
          => LET base == StoragePath(u, NameChain(folders', folder_id, MaxFolders))
                 subs == {f \in folders' : f.owner_id = u /\ f.parent_id = folder_id}
                 docs == {x \in files' : x.owner_id = u /\ x.folder_id = folder_id}
             IN /\ {f.name : f \in subs} = {Last(q) : q \in ChildrenOf(dirs', base)}
                /\ {x.filename : x \in docs} = {Last(q) : q \in ChildrenOf(dfiles', base)}
                /\ Cardinality(subs) = Cardinality(ChildrenOf(dirs', base))
                /\ Cardinality(docs) = Cardinality(ChildrenOf(dfiles', base))]_vars

\* C28: no two Folder rows with the same owner and the same parent (NULL
\* included) have the same name
C28_SiblingNamesUnique ==
    \A f, g \in folders :
        (f.id # g.id /\ f.owner_id = g.owner_id /\ f.parent_id = g.parent_id)
        => f.name # g.name

\* C25: a successful list-directory returns exactly the caller's Folder rows
\* with parent_id = F and FileMetadata rows with folder_id = F as they are
\* when the request is handled, before its sync has changed anything, with
\* total_files their number, total_size the sum of their sizes and
\* parent_folder_id the parent of F (NULL at the root)
C25_ListingIsSnapshot ==
    [][\A u \in DeepUsers, folder_id \in FolderIds \cup {NULL} :
          (list_directory(u, folder_id) /\ last'.status = 200)
          => LET subs == {f \in folders : f.owner_id = u /\ f.parent_id = folder_id}
                 docs == {x \in files : x.owner_id = u /\ x.folder_id = folder_id}
                 up == {f.parent_id : f \in {g \in folders : g.id = folder_id}}
             IN /\ {r \in last'.ret : r[1] = FOLDER} = {<<FOLDER, f.id>> : f \in subs}
                /\ {r \in last'.ret : r[1] = FILE} = {<<FILE, x.id>> : x \in docs}
                /\ <<"total_files", Cardinality(docs)>> \in last'.ret
                /\ <<"total_size", SumSizes(docs)>> \in last'.ret
                /\ \E parent \in IF folder_id = NULL THEN {NULL} ELSE up :
                      <<"parent_folder_id", parent>> \in last'.ret
                /\ Cardinality(last'.ret) = Cardinality(subs) + Cardinality(docs) + 3]_vars

\* C25 witness: a listing of a folder and a file was answered and the sync
\* behind it has registered one more file
C25_ListedBeforeSync ==
    /\ last.op = "list_directory" /\ last.status = 200
    /\ <<"total_files", 1>> \in last.ret
    /\ <<"total_size", ContentSize>> \in last.ret
    /\ \E r \in last.ret : r[1] = FOLDER
    /\ \E x \in files : x.uploaded_at # 0 /\ <<FILE, x.id>> \notin last.ret

\* ------------------------------------- common_utils.py, system_service.py
MaxFree == 22             \* free bytes of a disk reading
MaxMantissa == 2100       \* m of an argument m * 1024^e of format_size
MaxShift == 5             \* e of such an argument
MaxStorageRequests == 1   \* get_storage requests of a run
MaxScopeRequests == 4     \* requests of a run over PrefixNames
MaxRaceRequests == 4      \* requests of a run with uploads in two steps

Units == <<"B", "KB", "MB", "GB", "TB">>

RECURSIVE Pow1024(_)
Pow1024(k) == IF k = 0 THEN 1 ELSE 1024 * Pow1024(k - 1)

\* n / d rounded to the nearest integer, a tie to the even one (n >= 0, d > 0)
RoundHalfEven(n, d) ==
    LET q == n \div d
        r == n % d
    IN IF 2 * r < d THEN q
       ELSE IF 2 * r > d THEN q + 1
       ELSE IF q % 2 = 0 THEN q ELSE q + 1

\* abs(x) < 1024.0 for x >= 0; m stays below 1024^3
Below1024(x) ==
    \/ x.m = 0
    \/ x.e = 0 /\ x.m < 1024
    \/ x.e = -1 /\ x.m < Pow1024(2)
    \/ x.e < -1

\* two decimals that cut the value off instead of rounding it
TwoDecimalsCut(x) ==
    IF x.m = 0 THEN 0
    ELSE IF x.e >= 0 THEN 100 * x.m * Pow1024(x.e)
    ELSE (100 * x.m) \div Pow1024(-x.e)

\* f"{x:.2f}": x in hundredths, rounded as the format does
TwoDecimals(x) ==
    IF x.m = 0 THEN 0
    ELSE IF x.e >= 0 THEN 100 * x.m * Pow1024(x.e)
    ELSE RoundHalfEven(100 * x.m, Pow1024(-x.e))

\* the loop of format_size from the i-th unit on, and the return after it
RECURSIVE FormatLoop(_, _)
FormatLoop(x, i) ==
    IF i > Len(Units) THEN <<TwoDecimals(x), "PB">>
    ELSE IF Below1024(x) THEN <<TwoDecimals(x), Units[i]>>
    ELSE FormatLoop([x EXCEPT !.e = @ - 1], i + 1)

\* format_size: the text as <<hundredths, unit>>, "1.50 KB" being <<150, "KB">>
format_size(n) ==
    IF n.m < 0 THEN <<0, "B">> ELSE FormatLoop(n, 1)

\* a call of format_size
FormatSize ==
    /\ formatted = NoText
    /\ formatted' = format_size(size_in_bytes)
    /\ UNCHANGED <<dbvars, diskvars, syncvars, uservars, last, requests, now, events,
                   issued, disk_usage, size_in_bytes, uploading>>

InitFormat ==
    /\ InitService
    /\ disk_usage = Usage(0, 0, 0)
    /\ size_in_bytes \in {Float(m, e) : m \in -2..MaxMantissa, e \in 0..MaxShift}
    /\ formatted = NoText

SpecFormat == InitFormat /\ [][FormatSize]_vars

\* safe_percentage of get_storage: the percentage as <<numerator, denominator>>
safe_percentage(part, whole) ==
    IF whole <= 0 \/ part < 0 THEN <<0, 1>> ELSE <<part * 100, whole>>

\* p < k for a percentage p
Less(p, k) == p[1] < k * p[2]

\* a status whose limits belong to the lower class
get_storage_status_inclusive(free_percentage) ==
    IF ~Less(free_percentage, 10) /\ free_percentage[1] # 10 * free_percentage[2]
    THEN IF ~Less(free_percentage, 20) /\ free_percentage[1] # 20 * free_percentage[2]
         THEN "HEALTHY" ELSE "WARNING"
    ELSE "CRITICAL"

\* get_storage_status
get_storage_status(free_percentage) ==
    IF Less(free_percentage, 10) THEN "CRITICAL"
    ELSE IF Less(free_percentage, 20) THEN "WARNING"
    ELSE "HEALTHY"

\* GET get_storage, for an authenticated caller
get_storage(u) ==
    LET used_percentage == safe_percentage(disk_usage.used, disk_usage.total)
        free_percentage == safe_percentage(disk_usage.free, disk_usage.total)
    IN /\ last' = Response("get_storage", u, "storage", "none", 200,
               {<<"total_formatted", format_size(Float(disk_usage.total, 0))>>,
                <<"used_formatted", format_size(Float(disk_usage.used, 0))>>,
                <<"used_percentage",
                  RoundHalfEven(100 * used_percentage[1], used_percentage[2])>>,
                <<"free_formatted", format_size(Float(disk_usage.free, 0))>>,
                <<"free_percentage",
                  RoundHalfEven(100 * free_percentage[1], free_percentage[2])>>,
                <<"is_critical", Less(free_percentage, 10)>>,
                <<"is_warning", Less(free_percentage, 20)>>,
                <<"status", get_storage_status(free_percentage)>>})
       /\ UNCHANGED <<dbvars, diskvars>>

GetStorage(U, max) ==
    /\ \E u \in U : get_storage(u)
    /\ Served(max)
    /\ UNCHANGED <<syncvars, issued, uservars, sysvars, uploading>>

\* the disk readings: a total, the free bytes, and the rest as used
DiskTotals == {-1, 0, 10, 20, 100}
DiskUsages ==
    {Usage(total, IF 0 <= free /\ free <= total THEN total - free ELSE 0, free) :
        total \in DiskTotals, free \in -1..MaxFree}

InitStorage ==
    /\ InitService
    /\ disk_usage \in DiskUsages
    /\ size_in_bytes = Float(0, 0)
    /\ formatted = NoText

SpecStorage == InitStorage /\ [][GetStorage(DeepUsers, MaxStorageRequests)]_vars

\* C29: the storage status is CRITICAL exactly when the free percentage p is
\* below 10, WARNING exactly when 10 <= p < 20 and HEALTHY exactly when
\* p >= 20; is_critical tells p < 10 and is_warning p < 20; a total that is
\* not positive or a negative free count gives p = 0 and CRITICAL
C29_StatusThresholds ==
    last.op = "get_storage"
    => LET total == disk_usage.total
           free == disk_usage.free
           none == total <= 0 \/ free < 0
           below10 == none \/ free * 100 < 10 * total
           below20 == none \/ free * 100 < 20 * total
       IN /\ <<"status", "CRITICAL">> \in last.ret <=> below10
          /\ <<"status", "WARNING">> \in last.ret <=> (~below10 /\ below20)
          /\ <<"status", "HEALTHY">> \in last.ret <=> ~below20
          /\ <<"is_critical", below10>> \in last.ret
          /\ <<"is_warning", below20>> \in last.ret
          /\ <<"is_critical", TRUE>> \in last.ret => <<"is_warning", TRUE>> \in last.ret
          /\ none => <<"free_percentage", 0>> \in last.ret

\* C29 witness: a reading with exactly 10 per cent free was reported WARNING
C29_TenPerCentFree ==
    /\ last.op = "get_storage"
    /\ disk_usage.total > 0 /\ disk_usage.free * 10 = disk_usage.total
    /\ <<"status", "WARNING">> \in last.ret
    /\ <<"is_critical", FALSE>> \in last.ret

\* the value m * 1024^d is below 1024 (m > 0)
ValueBelow1024(m, d) == d < 0 \/ (d = 0 /\ m < 1024)

\* C30: format_size gives "0.00 B" for 0 and for a negative count; otherwise
\* it divides by 1024 until the value is below 1024, at most five times, names
\* the unit reached (B, KB, MB, GB, TB, and PB after the fifth division
\* whatever the value) and shows the value to the nearest hundredth; 1536
\* gives "1.50 KB"
C30_FormatSize ==
    formatted # NoText
    => LET m == size_in_bytes.m
           e == size_in_bytes.e
           AllUnits == Units \o <<"PB">>
       IN /\ m <= 0 => formatted = <<0, "B">>
          /\ m > 0 =>
                \E k \in 0..5 :
                   LET d == e - k
                       h == formatted[1]
                   IN /\ formatted[2] = AllUnits[k + 1]
                      /\ k < 5 => ValueBelow1024(m, d)
                      /\ k > 0 => ~ValueBelow1024(m, d + 1)
                      /\ IF d >= 0 THEN h = 100 * m * Pow1024(d)
                         ELSE LET unit == Pow1024(-d)
                                  gap == 100 * m - h * unit
                              IN 2 * gap <= unit /\ -2 * gap <= unit
          /\ (m = 1536 /\ e = 0) => formatted = <<150, "KB">>

\* C30 witness: 1536 bytes came out as "1.50 KB"
C30_OneAndAHalfKB ==
    /\ size_in_bytes = Float(1536, 0)
    /\ formatted = <<150, "KB">>

\* ---------------------------------------------------------------- C31
\* folder names of which one begins with the text of the other: "a", "ab"
PrefixNames == {<<"a">>, <<"a", "b">>}

\* create-folder, upload and listing requests of one user over PrefixNames,
\* and one removal on the disk outside the API
NextScope ==
    \/ CreateFolderNamed(DeepUsers, PrefixNames, MaxScopeRequests)
    \/ UploadFile(DeepUsers, MaxScopeRequests)
    \/ ListDirectory(DeepUsers, MaxScopeRequests)
    \/ ExternalRemove(DeepUsers)

SpecScope == Init /\ [][NextScope]_vars

\* folder_paths[f.id] of sync_directory_with_db: the path the parent chain
\* of a Folder row resolves to
ResolvedFolderPath(Fs, f) ==
    StoragePath(f.owner_id, OwnedChain(Fs, f.id, f.owner_id, Cardinality(Fs)))

\* the key of a FileMetadata row in scope_files: the resolved path of its
\* folder and its filename
ResolvedFilePath(Fs, x) ==
    IF x.folder_id # NULL /\ Found(OwnedFolder(Fs, x.folder_id, x.owner_id))
    THEN StoragePath(x.owner_id,
                     OwnedChain(Fs, x.folder_id, x.owner_id, Cardinality(Fs))) \o <<x.filename>>
    ELSE StoragePath(x.owner_id, <<x.filename>>)

\* C31: a sync scoped to folder F leaves every Folder and FileMetadata row
\* of the user whose resolved path is outside F's subtree as it was, rows of
\* a sibling folder whose name starts with F's name included, and inserts no
\* row outside F's subtree
C31_ScopedSyncFrame ==
    [][\A u \in DeepUsers, F \in FolderIds :
          (/\ list_directory(u, F)
           /\ Found(OwnedFolder(folders, F, u))
           /\ SyncBody(folders, files, dirs, dfiles, nextFolderId, nextFileId,
                       u, F).outcome = "ok")
          => LET base_path == get_folder_path(folders, F, u)
                 OutF(Fs) == {f \in Fs : f.owner_id = u
                                 /\ ~IsPrefix(base_path, ResolvedFolderPath(Fs, f))}
                 OutX(Fs, Xs) == {x \in Xs : x.owner_id = u
                                 /\ ~IsPrefix(base_path, ResolvedFilePath(Fs, x))}
             IN /\ OutF(folders) = OutF(folders')
                /\ OutX(folders, files) = OutX(folders', files')]_vars

\* ---------------------------------------------------------------- C32
\* C32: a sync scoped to a folder the user owns whose directory is missing on
\* disk creates the directory and reconciles: after the run the directory
\* exists and no row of the user that resolves to it or beneath it is
\* without its directory or file on disk
C32_MissingBaseIsCreated ==
    [][\A u \in DeepUsers, F \in FolderIds :
          (/\ list_directory(u, F)
           /\ Found(OwnedFolder(folders, F, u))
           /\ ~Exists(dirs, dfiles, get_folder_path(folders, F, u)))
          => LET base_path == get_folder_path(folders, F, u)
             IN /\ base_path \in dirs'
                /\ \A f \in folders' :
                      (f.owner_id = u /\ IsPrefix(base_path, ResolvedFolderPath(folders', f)))
                      => Exists(dirs', dfiles', ResolvedFolderPath(folders', f))
                /\ \A x \in files' :
                      (x.owner_id = u /\ IsPrefix(base_path, ResolvedFilePath(folders', x)))
                      => Exists(dirs', dfiles', ResolvedFilePath(folders', x))]_vars

\* ---------------------------------------------------------------- C33
\* the rows of a table that user u owns
Own(S, u) == {r \in S : r.owner_id = u}

\* C33: what a rename or copy request of user u answers, and the name a copy
\* gets, is what the rows that u owns alone determine: a rename is refused as
\* a name conflict exactly when u has another item of that name in the same
\* place, and a copy is named as the names of u's own items in the
\* destination require, whatever other users have there (root included)
C33_OwnRowsDecide ==
    [][\A u \in Users :
          /\ \A item_id \in FileIds, new_name \in FileNames :
                (rename_item(u, FILE, item_id, new_name)
                 /\ Found(OwnedFile(files, item_id, u)))
                => LET file == OwnedFile(files, item_id, u)
                   IN last'.raised = "400"
                      <=> \E x \in Own(files, u) :
                            x.folder_id = file.folder_id /\ x.filename = new_name
                            /\ x.id # file.id
          /\ \A item_id \in FolderIds, new_name \in FolderNames :
                (rename_item(u, FOLDER, item_id, new_name)
                 /\ Found(OwnedFolder(folders, item_id, u)))
                => LET folder == OwnedFolder(folders, item_id, u)
                   IN last'.raised = "400"
                      <=> \E g \in Own(folders, u) :
                            g.parent_id = folder.parent_id /\ g.name = new_name
                            /\ g.id # folder.id
          /\ \A item_id \in FileIds, dest \in FolderIds \cup {NULL} :
                (copy_item(u, FILE, item_id, dest) /\ last'.status = 200)
                => \E x \in files' \ files :
                      x.filename = CopyFileName(Own(files, u), dest,
                                                OwnedFile(files, item_id, u).filename)
          /\ \A item_id \in FolderIds, dest \in FolderIds \cup {NULL} :
                (copy_item(u, FOLDER, item_id, dest) /\ last'.status = 200)
                => \E g \in folders' \ folders :
                      /\ g.id = nextFolderId
                      /\ g.name = CopyFolderName(Own(folders, u), dest,
                                                 OwnedFolder(folders, item_id, u).name)]_vars

\* ---------------------------------------------------------------- C34
\* file names with and without an extension that mimetypes knows
RaceNames == {<<"f", ".txt">>, <<"g">>}

\* an upload between its two halves: the file is on disk, the row is not made
Upload(u, filename, folder_id, file_path) ==
    [user |-> u, filename |-> filename, folder_id |-> folder_id, filepath |-> file_path]

\* POST /files/upload up to "await file.close()": the folder lookup, the
\* name, os.makedirs and the file written to disk
upload_write(u, filename, folder_id) ==
    LET folder == OwnedFolder(folders, folder_id, u)
        folder_path_parts ==
            IF folder_id # NULL THEN NameChain(folders, folder_id, MaxFolders) ELSE <<>>
        folder_path == StoragePath(u, folder_path_parts)
        stored == UploadName(files, u, folder_id, filename)
        file_path == folder_path \o <<stored>>
    IN /\ folder_id # NULL => Found(folder)
       /\ dirs' = Makedirs(dirs, folder_path)
       /\ dfiles' = dfiles \cup {file_path}
       /\ uploading' = uploading \cup {Upload(u, stored, folder_id, file_path)}

\* the rest of POST /files/upload: "Create file metadata", commit, response
upload_commit(up) ==
    /\ nextFileId <= MaxFiles
    /\ files' = files \cup {FileRow(nextFileId, up.filename, up.filepath,
                                     GuessType(up.filename), up.folder_id, up.user, 0)}
    /\ nextFileId' = nextFileId + 1
    /\ last' = Response("upload_file", up.user, FILE, "none", 200, {<<FILE, nextFileId>>})
    /\ uploading' = uploading \ {up}

UploadWrite(U, names) ==
    /\ uploading = {}
    /\ \E u \in U, filename \in names, folder_id \in FolderIds \cup {NULL} :
          upload_write(u, filename, folder_id)
    /\ UNCHANGED <<dbvars, last, requests, now, events, issued, syncvars, uservars, sysvars>>

UploadCommit(max) ==
    /\ \E up \in uploading : upload_commit(up)
    /\ Served(max)
    /\ UNCHANGED <<folders, nextFolderId, diskvars, issued, syncvars, uservars, sysvars>>

\* uploads in two steps beside the listings whose syncs may fall between them
NextRace ==
    \/ CreateFolder(DeepUsers, MaxRaceRequests)
    \/ UploadWrite(DeepUsers, RaceNames)
    \/ UploadCommit(MaxRaceRequests)
    \/ ListDirectory(DeepUsers, MaxRaceRequests)

SpecRace == Init /\ [][NextRace]_vars

\* C34: when a sync has registered an uploaded file before the upload
\* committed its own row, a further sync with its cleanup, run when no upload
\* is under way, leaves exactly one FileMetadata row for that file, whatever
\* its extension and MIME type
C34_OneRowAfterRace ==
    [][\A u \in DeepUsers, folder_id \in FolderIds \cup {NULL} :
          (/\ uploading = {}
           /\ list_directory(u, folder_id)
           /\ last'.status = 200
           /\ SyncBody(folders, files, dirs, dfiles, nextFolderId, nextFileId,
                       u, folder_id).outcome = "ok")
          => \A x \in files :
                (/\ x.owner_id = u /\ x.folder_id = folder_id /\ x.uploaded_at = 0
                 /\ \E y \in files : /\ y.filepath = x.filepath /\ y.owner_id = u
                                      /\ y.uploaded_at # 0)
                => Cardinality({z \in files' : z.owner_id = u
                                                /\ z.filepath = x.filepath}) = 1]_vars

\* ---------------------------------------------------------------- C35
\* C35: with nothing changed on disk outside the API, the Folder row that a
\* create-folder request has just made under a non-root parent is there
\* unchanged after a sync of the user's root or of that parent, and the sync
\* adds no further Folder row of its name
C35_CreatedFolderSurvivesSync ==
    [][\A u \in DeepUsers, folder_id \in FolderIds \cup {NULL} :
          (/\ events = 0
           /\ last.op = "create_folder" /\ last.status = 200 /\ last.user = u
           /\ list_directory(u, folder_id)
           /\ last'.status = 200)
          => \A f \in folders :
                (/\ <<FOLDER, f.id>> \in last.ret
                 /\ f.parent_id # NULL
                 /\ folder_id \in {NULL, f.parent_id})
                => /\ f \in folders'
                   /\ ~\E g \in folders' \ folders : g.name = f.name]_vars

\* ---------------------------------------------------------------- C36
\* C36: a bearer token issued for User row U that has not expired makes the
\* authentication dependency return U's own row or reject with 401, whatever
\* update-user, delete-user and create-user requests came in between
C36_TokenKeepsItsUser ==
    \A b \in bearers :
        b[1].exp > now * MinutesPerHour
        => \/ get_current_user(b[1]).status = 401
           \/ get_current_user(b[1]).user.id = b[2]

\* ---------------------------------------------------------------- C37
\* C37: for every folder the user owns and every destination the user owns
\* (the root, the folder itself and the folders below it included), a copy
\* request comes to an end having made exactly one new Folder row for each
\* folder of the source subtree as it was; stated where the id sequences
\* leave room for that many rows
C37_CopyOnePerFolder ==
    \A u \in DeepUsers, item_id \in FolderIds, dest \in FolderIds \cup {NULL} :
        LET subtree == {item_id} \cup Descendants(folders, item_id, MaxFolders)
            inside == {x \in files : x.folder_id \in subtree}
            st == copy_folder_recursive(
                      CopyState(folders, files, dirs, dfiles, nextFolderId, nextFileId),
                      u, item_id, dest)
        IN (/\ Found(OwnedFolder(folders, item_id, u))
            /\ dest # NULL => Found(OwnedFolder(folders, dest, u))
            /\ nextFolderId + Cardinality(subtree) - 1 <= MaxFolders
            /\ nextFileId + Cardinality(inside) - 1 <= MaxFiles)
           => /\ ~st.over
              /\ Cardinality(st.folders \ folders) = Cardinality(subtree)

\* ---------------------------------------------------------------- C38
\* C38: after a duplicate cleanup that has deleted Folder rows, the folder id
\* of every remaining FileMetadata row and the parent id of every remaining
\* Folder row is null or the id of a Folder row that is still there
C38_NoRowBeneathDeleted ==
    [][\A u \in DeepUsers, folder_id \in FolderIds \cup {NULL} :
          (/\ clean_directory(u, folder_id)
           /\ last'.status = 200
           /\ folders \ folders' # {})
          => /\ \A x \in files' :
                   x.folder_id = NULL \/ \E f \in folders' : f.id = x.folder_id
             /\ \A g \in folders' :
                   g.parent_id = NULL \/ \E f \in folders' : f.id = g.parent_id]_vars

\* a cleanup has deleted a folder that held a file: the file's row is left
\* with a null folder id although it was not uploaded to the root
C38_CleanedAboveFile ==
    /\ last.op = "clean_directory" /\ last.status = 200
    /\ Cardinality(folders) < nextFolderId - 1
    /\ \E x \in files : x.folder_id = NULL /\ Len(x.filepath) > 2
====
